---- MODULE Spec2Model ----
(***************************************************************************)
(* A model of lingua's message template compiler and renderer:             *)
(*   internal/parser/lexer.go     the state-function lexer                 *)
(*   internal/parser/iterator.go  the token cursor                         *)
(*   internal/parser/parser.go    Parse, parseTransformers,                *)
(*                                parsePluralCase, Message.Raw             *)
(*   container.go                 Container.format                         *)
(*                                                                         *)
(* A Go string is a sequence of one-character strings; every character of  *)
(* the model is one byte wide, so a rune read has width 1 (0 at the end of *)
(* the input).  Offsets are Go's (0-based): byte i of the input is         *)
(* input[i + 1] here.                                                      *)
(***************************************************************************)
EXTENDS Integers, Sequences, FiniteSets, TLC

VARIABLES input, state, start, pos, width, tokens,
          phase, msg, replacements, out,
          calls,
          c_messages, defaultLanguage, from_messages, ctx, call,
          fs,
          index

vars == <<input, state, start, pos, width, tokens, phase, msg, replacements, out,
          calls, c_messages, defaultLanguage, from_messages, ctx, call, fs, index>>

\* The state of a Container (and of the `from` container of a Merge), the
\* request context, and the last call made on the container.
containerVars == <<c_messages, defaultLanguage, from_messages, ctx, call, fs, index>>

(***************************************************************************)
(* Bounds of the model.                                                    *)
(***************************************************************************)
MaxChunks == 3
MaxCases == 3

(***************************************************************************)
(* lexer.go: constants.                                                    *)
(***************************************************************************)
eof == "EOF"

lowercase == {"a", "b", "c", "d", "e", "f", "g", "h", "i", "j", "k", "l", "m",
              "n", "o", "p", "q", "r", "s", "t", "u", "v", "w", "x", "y", "z"}

digits == {"0", "1", "2", "3", "4", "5", "6", "7", "8", "9"}

spaces == {" ", "\t", "\n"}

strPlural == <<"p", "l", "u", "r", "a", "l">>
strCapitalize == <<"c", "a", "p", "i", "t", "a", "l", "i", "z", "e">>
strReplace == <<"r", "e", "p", "l", "a", "c", "e">>
strOther == <<"o", "t", "h", "e", "r">>

(***************************************************************************)
(* lexer.go: the lexer struct as a record l, and its methods.  Each method *)
(* that returns a rune and moves the cursor is a pair: xR(l) is the rune,  *)
(* xL(l) the lexer afterwards.                                             *)
(***************************************************************************)
Slice(s, from, to) == SubSeq(s, from + 1, to)

\* Token: TokenType and Data are the struct's fields; At is the offset the
\* token's text starts at (for an error token, the offset of the error).
Token(t, d, at) == [TokenType |-> t, Data |-> d, At |-> at]

nextR(l) == IF l.pos >= Len(l.input) THEN eof ELSE l.input[l.pos + 1]

\* next moving the cursor on at the end of the input as well.
nextL_PastEnd(l) == [l EXCEPT !.width = 1, !.pos = l.pos + 1]

nextL(l) == IF l.pos >= Len(l.input)
            THEN [l EXCEPT !.width = 0]
            ELSE [l EXCEPT !.width = 1, !.pos = l.pos + 1]

backup(l) == [l EXCEPT !.pos = l.pos - l.width]

peekR(l) == nextR(l)

peekL(l) == backup(nextL(l))

ignore(l) == [l EXCEPT !.start = l.pos]

data(l) == Slice(l.input, l.start, l.pos)

\* collect without its check for an empty token.
collect_Always(l, t) ==
    [l EXCEPT !.tokens = Append(l.tokens, Token(t, Slice(l.input, l.start, l.pos), l.start)),
              !.start = l.pos]

collect(l, t) ==
    IF l.start = l.pos
    THEN l
    ELSE [l EXCEPT !.tokens = Append(l.tokens, Token(t, Slice(l.input, l.start, l.pos), l.start)),
                   !.start = l.pos]

\* The message text is "<msg> at position <pos> (<input[0:pos]>)"; the token
\* keeps msg as its Data and pos as its At.
error(l, m) ==
    [l EXCEPT !.tokens = Append(l.tokens, Token("errTok", <<m>>, l.pos)),
              !.start = l.pos]

acceptR(l, valid) == nextR(l) \in valid

acceptL(l, valid) == IF nextR(l) \in valid THEN nextL(l) ELSE backup(nextL(l))

RECURSIVE acceptRun(_, _)
acceptRun(l, valid) ==
    IF nextR(l) \in valid THEN acceptRun(nextL(l), valid) ELSE backup(nextL(l))

goto(l, s) == [l EXCEPT !.state = s]

(***************************************************************************)
(* lexer.go: the state functions.  Each takes the lexer and returns it     *)
(* with state set to the state function it hands over to ("nil" ends the   *)
(* run).                                                                   *)
(***************************************************************************)
\* lexLiteral without the read of the ':' that follows a backslash.
RECURSIVE lexLiteral_NoEscape(_)
lexLiteral_NoEscape(l) ==
    LET r == peekR(l)
        p == peekL(l)
    IN  IF r = eof THEN goto(collect(p, "literal"), "nil")
        ELSE IF r = ":" THEN goto(collect(p, "literal"), "lexerPlaceholder")
        ELSE lexLiteral_NoEscape(nextL(p))

RECURSIVE lexLiteral(_)
lexLiteral(l) ==
    LET r == peekR(l)
        p == peekL(l)
    IN  IF r = eof THEN goto(collect(p, "literal"), "nil")
        ELSE IF r = ":" THEN goto(collect(p, "literal"), "lexerPlaceholder")
        ELSE IF r = "\\"
             THEN LET n == nextL(p)
                  IN  IF peekR(n) = ":"
                      THEN lexLiteral(nextL(peekL(n)))
                      ELSE lexLiteral(peekL(n))
        ELSE lexLiteral(nextL(p))

\* lexerPlaceholder dropping a ':' that starts no placeholder.
lexerPlaceholder_DropsColon(l) ==
    LET c == nextL(l)
    IN  IF ~acceptR(c, lowercase)
        THEN goto(ignore(acceptL(c, lowercase)), "lexLiteral")
        ELSE LET k == collect(acceptRun(ignore(backup(acceptL(c, lowercase))), lowercase),
                              "replacement")
             IN  IF peekR(k) = "|"
                 THEN goto(peekL(k), "lexerTransformer")
                 ELSE goto(peekL(k), "lexLiteral")

\* lexerPlaceholder without its look for a transformer.
lexerPlaceholder_NoTransformer(l) ==
    LET c == nextL(l)
    IN  IF ~acceptR(c, lowercase)
        THEN goto(acceptL(c, lowercase), "lexLiteral")
        ELSE goto(collect(acceptRun(ignore(backup(acceptL(c, lowercase))), lowercase),
                          "replacement"), "lexLiteral")

\* lexerPlaceholder giving a ':' that starts no placeholder back.
lexerPlaceholder_GivesBack(l) ==
    LET c == nextL(l)
    IN  IF ~acceptR(c, lowercase)
        THEN goto(backup(c), "lexLiteral")
        ELSE LET k == collect(acceptRun(ignore(backup(acceptL(c, lowercase))), lowercase),
                              "replacement")
             IN  IF peekR(k) = "|"
                 THEN goto(peekL(k), "lexerTransformer")
                 ELSE goto(peekL(k), "lexLiteral")

lexerPlaceholder(l) ==
    LET c == nextL(l)
    IN  IF ~acceptR(c, lowercase)
        THEN goto(acceptL(c, lowercase), "lexLiteral")
        ELSE LET k == collect(acceptRun(ignore(backup(acceptL(c, lowercase))), lowercase),
                              "replacement")
             IN  IF peekR(k) = "|"
                 THEN goto(peekL(k), "lexerTransformer")
                 ELSE goto(peekL(k), "lexLiteral")

\* lexerTransformer taking any lowercase name for a transformer.
lexerTransformer_AnyName(l) ==
    IF peekR(l) # "|"
    THEN goto(peekL(l), "lexLiteral")
    ELSE LET b == ignore(nextL(peekL(l)))
         IN  IF ~acceptR(b, lowercase)
             THEN goto(error(nextL(acceptL(b, lowercase)),
                             "expected lowercase transformer name"), "nil")
             ELSE LET n == acceptRun(acceptL(b, lowercase), lowercase)
                      transformerType == data(n)
                  IN  IF transformerType = strPlural
                      THEN IF peekR(n) # "("
                           THEN goto(error(peekL(n), "expected '(' after plural transformer"), "nil")
                           ELSE goto(nextL(collect(peekL(n), "transformer")), "lexerPluralArgs")
                      ELSE goto(collect(n, "transformer"), "lexerTransformer")

\* lexerTransformer going on with lexLiteral after an unknown transformer.
lexerTransformer_GoesOn(l) ==
    IF peekR(l) # "|"
    THEN goto(peekL(l), "lexLiteral")
    ELSE LET b == ignore(nextL(peekL(l)))
         IN  IF ~acceptR(b, lowercase)
             THEN goto(error(nextL(acceptL(b, lowercase)),
                             "expected lowercase transformer name"), "nil")
             ELSE LET n == acceptRun(acceptL(b, lowercase), lowercase)
                      transformerType == data(n)
                  IN  IF transformerType = strPlural
                      THEN IF peekR(n) # "("
                           THEN goto(error(peekL(n), "expected '(' after plural transformer"), "nil")
                           ELSE goto(nextL(collect(peekL(n), "transformer")), "lexerPluralArgs")
                      ELSE IF transformerType \in {strCapitalize, strReplace}
                           THEN goto(collect(n, "transformer"), "lexerTransformer")
                           ELSE goto(error(n, "unknown transformer"), "lexLiteral")

lexerTransformer(l) ==
    IF peekR(l) # "|"
    THEN goto(peekL(l), "lexLiteral")
    ELSE LET b == ignore(nextL(peekL(l)))
         IN  IF ~acceptR(b, lowercase)
             THEN goto(error(nextL(acceptL(b, lowercase)),
                             "expected lowercase transformer name"), "nil")
             ELSE LET n == acceptRun(acceptL(b, lowercase), lowercase)
                      transformerType == data(n)
                  IN  IF transformerType = strPlural
                      THEN IF peekR(n) # "("
                           THEN goto(error(peekL(n), "expected '(' after plural transformer"), "nil")
                           ELSE goto(nextL(collect(peekL(n), "transformer")), "lexerPluralArgs")
                      ELSE IF transformerType \in {strCapitalize, strReplace}
                           THEN goto(collect(n, "transformer"), "lexerTransformer")
                           ELSE goto(error(n, "unknown transformer"), "nil")

HasPrefix(s, prefix) ==
    /\ Len(s) >= Len(prefix)
    /\ SubSeq(s, 1, Len(prefix)) = prefix

RECURSIVE nextTimes(_, _)
nextTimes(l, n) == IF n = 0 THEN l ELSE nextTimes(nextL(l), n - 1)

\* lexerPluralArgs ending the run without an error at the end of the input.
RECURSIVE lexerPluralArgs_EndsAtEOF(_)
lexerPluralArgs_EndsAtEOF(l) ==
    LET s == ignore(acceptRun(l, spaces))
        p == peekL(s)
    IN  IF peekR(s) = ")"
        THEN goto(ignore(nextL(p)), "lexerTransformer")
        ELSE IF peekR(s) = "="
        THEN goto(p, "lexerPluralNumericArg")
        ELSE IF HasPrefix(Slice(p.input, p.pos, Len(p.input)), strOther)
        THEN goto(collect(nextTimes(p, Len(strOther)), "pluralOther"), "lexerPluralTranslation")
        ELSE IF nextR(p) = eof
             THEN goto(nextL(p), "nil")
             ELSE lexerPluralArgs_EndsAtEOF(nextL(p))

RECURSIVE lexerPluralArgs(_)
lexerPluralArgs(l) ==
    LET s == ignore(acceptRun(l, spaces))
        p == peekL(s)
    IN  IF peekR(s) = ")"
        THEN goto(ignore(nextL(p)), "lexerTransformer")
        ELSE IF peekR(s) = "="
        THEN goto(p, "lexerPluralNumericArg")
        ELSE IF HasPrefix(Slice(p.input, p.pos, Len(p.input)), strOther)
        THEN goto(collect(nextTimes(p, Len(strOther)), "pluralOther"), "lexerPluralTranslation")
        ELSE IF nextR(p) = eof
             THEN goto(error(nextL(p), "unexpected EOF"), "nil")
             ELSE lexerPluralArgs(nextL(p))

\* lexerPluralNumericArg taking a '-' without a number after it.
lexerPluralNumericArg_OpenRange(l) ==
    LET e == ignore(nextL(l))
    IN  IF ~acceptR(e, digits)
        THEN goto(error(acceptL(e, digits), "expected number after '='"), "nil")
        ELSE LET a == collect(acceptRun(acceptL(e, digits), digits), "pluralNumeric")
             IN  IF peekR(a) # "-"
                 THEN goto(peekL(a), "lexerPluralTranslation")
                 ELSE LET d == collect(nextL(peekL(a)), "pluralRange")
                      IN  goto(collect(acceptRun(d, digits), "pluralNumeric"),
                               "lexerPluralTranslation")

lexerPluralNumericArg(l) ==
    LET e == ignore(nextL(l))
    IN  IF ~acceptR(e, digits)
        THEN goto(error(acceptL(e, digits), "expected number after '='"), "nil")
        ELSE LET a == collect(acceptRun(acceptL(e, digits), digits), "pluralNumeric")
             IN  IF peekR(a) # "-"
                 THEN goto(peekL(a), "lexerPluralTranslation")
                 ELSE LET d == collect(nextL(peekL(a)), "pluralRange")
                      IN  IF ~acceptR(d, digits)
                          THEN goto(error(acceptL(d, digits), "expected number after '-'"), "nil")
                          ELSE goto(collect(acceptRun(acceptL(d, digits), digits), "pluralNumeric"),
                                    "lexerPluralTranslation")

\* The loop of lexerPluralTranslation that collects the translation.
RECURSIVE lexerPluralBody(_)
lexerPluralBody(l) ==
    IF peekR(l) = "}"
    THEN goto(collect(nextL(collect(peekL(l), "literal")), "pluralTranslationEnd"),
              "lexerPluralArgs")
    ELSE LET p == peekL(l)
             n == nextR(p)
         IN  IF n = eof
             THEN goto(error(nextL(p), "unexpected EOF"), "nil")
             ELSE IF n = "#"
             THEN lexerPluralBody(collect(nextL(collect(backup(nextL(p)), "literal")),
                                          "pluralCount"))
             ELSE lexerPluralBody(nextL(p))

lexerPluralTranslation(l) ==
    LET s == ignore(acceptRun(l, spaces))
    IN  IF peekR(s) # "{"
        THEN goto(error(peekL(s), "expected '{' for plural translation start"), "nil")
        ELSE lexerPluralBody(collect(nextL(peekL(s)), "pluralTranslationStart"))

\* runLexer's l := &lexer{input: input, tokens: make([]Token, 0)} and its
\* first state.
newLexer(in) ==
    [input |-> in, start |-> 0, pos |-> 0, width |-> 0, tokens |-> <<>>,
     state |-> "lexLiteral"]

\* state = state(l)
stateFn(l) ==
    CASE l.state = "lexLiteral" -> lexLiteral(l)
      [] l.state = "lexerPlaceholder" -> lexerPlaceholder(l)
      [] l.state = "lexerTransformer" -> lexerTransformer(l)
      [] l.state = "lexerPluralArgs" -> lexerPluralArgs(l)
      [] l.state = "lexerPluralNumericArg" -> lexerPluralNumericArg(l)
      [] l.state = "lexerPluralTranslation" -> lexerPluralTranslation(l)

RECURSIVE lexerLoop(_)
lexerLoop(l) == IF l.state = "nil" THEN l ELSE lexerLoop(stateFn(l))

\* The check after the loop: was the last state an error.
lexFailed(toks) == Len(toks) > 0 /\ toks[Len(toks)].TokenType = "errTok"

\* runLexer: [err, tokens]; tokens is nil (empty) on an error.
runLexer(in) ==
    LET l == lexerLoop(newLexer(in))
    IN  IF lexFailed(l.tokens)
        THEN [err |-> TRUE, tokens |-> <<>>]
        ELSE [err |-> FALSE, tokens |-> l.tokens]

(***************************************************************************)
(* iterator.go: the cursor over the tokens, a record it.  Next is a pair   *)
(* like the lexer's reads: NextOk and NextTok are what it returns, NextIt  *)
(* the iterator afterwards.                                                *)
(***************************************************************************)
newIterator(items) == [items |-> items, index |-> -1]

PeekOk(it) == ~(it.index + 1 < 0 \/ it.index + 1 >= Len(it.items))

PeekTok(it) == it.items[it.index + 2]

NextOk(it) == ~(it.index + 1 >= Len(it.items))

NextTok(it) == it.items[it.index + 2]

\* Next advancing also at the end.
NextIt_Always(it) == [it EXCEPT !.index = it.index + 1]

NextIt(it) == IF it.index + 1 >= Len(it.items) THEN it ELSE [it EXCEPT !.index = it.index + 1]

\* HasNext looking at the current item instead of the next.
HasNext_OffByOne(it) == it.index < Len(it.items)

HasNext(it) == it.index + 1 < Len(it.items)

CurrentOk(it) == ~(it.index < 0 \/ it.index >= Len(it.items))

CurrentTok(it) == it.items[it.index + 1]

Reset(it) == [it EXCEPT !.index = -1]

(***************************************************************************)
(* strconv.Atoi and strconv.Itoa on character sequences.  Atoi reads an    *)
(* optional sign and one or more decimal digits; anything else is an       *)
(* error, and so is a number outside the range of int, taken to be 64     *)
(* bits wide; the numbers that convert are far below that range.           *)
(***************************************************************************)
digitSeq == <<"0", "1", "2", "3", "4", "5", "6", "7", "8", "9">>

digitVal(c) == (CHOOSE i \in 1..Len(digitSeq) : digitSeq[i] = c) - 1

RECURSIVE digitsVal(_)
digitsVal(s) == IF s = <<>> THEN 0
                ELSE 10 * digitsVal(SubSeq(s, 1, Len(s) - 1)) + digitVal(s[Len(s)])

allDigits(s) == s # <<>> /\ \A i \in 1..Len(s) : s[i] \in digits

\* The digits of the largest int, 9223372036854775807, and of the absolute
\* value of the smallest.
maxInt ==
    <<"9", "2", "2", "3", "3", "7", "2", "0", "3", "6", "8", "5", "4", "7", "7", "5", "8",
      "0", "7">>

minInt == SubSeq(maxInt, 1, Len(maxInt) - 1) \o <<"8">>

RECURSIVE stripZeros(_)
stripZeros(s) == IF Len(s) > 1 /\ s[1] = "0" THEN stripZeros(Tail(s)) ELSE s

\* a <= b for two numbers of as many digits.
RECURSIVE digitsLE(_, _)
digitsLE(a, b) ==
    IF a = <<>> THEN TRUE
    ELSE IF digitVal(a[1]) # digitVal(b[1]) THEN digitVal(a[1]) < digitVal(b[1])
    ELSE digitsLE(Tail(a), Tail(b))

\* The number s is at most limit: no ErrRange.
inRange(s, limit) ==
    \/ Len(stripZeros(s)) < Len(limit)
    \/ Len(stripZeros(s)) = Len(limit) /\ digitsLE(stripZeros(s), limit)

AtoiOk(s) ==
    IF s # <<>> /\ s[1] \in {"+", "-"}
    THEN allDigits(Tail(s)) /\ inRange(Tail(s), IF s[1] = "-" THEN minInt ELSE maxInt)
    ELSE allDigits(s) /\ inRange(s, maxInt)

Atoi(s) ==
    IF s[1] = "-" THEN 0 - digitsVal(Tail(s))
    ELSE IF s[1] = "+" THEN digitsVal(Tail(s))
    ELSE digitsVal(s)

RECURSIVE natStr(_)
natStr(n) == IF n < 10 THEN <<digitSeq[n + 1]>>
             ELSE natStr(n \div 10) \o <<digitSeq[(n % 10) + 1]>>

Itoa(n) == IF n < 0 THEN <<"-">> \o natStr(0 - n) ELSE natStr(n)

(***************************************************************************)
(* parser.go: operations, transformers and plural cases.                   *)
(***************************************************************************)
LiteralOp(v) == [op |-> "LiteralOp", Value |-> v]

ReplacementOp(k, ts) == [op |-> "ReplacementOp", Key |-> k, Transformers |-> ts]

PluralCountOp == [op |-> "PluralCountOp"]

CapitalizeTransformer == [t |-> "CapitalizeTransformer"]

ReplaceTransformer == [t |-> "ReplaceTransformer"]

PluralTransformer(cases, other) == [t |-> "PluralTransformer", Cases |-> cases, Other |-> other]

\* pcase := &PluralCase{Type: OpPluralCaseTypeExact, Ops: make([]any, 0)}
newPluralCase == [Type |-> "OpPluralCaseTypeExact", A |-> 0, B |-> 0, Ops |-> <<>>]

\* What parsePluralCase returns: a case ("case"), nil without an error
\* ("nil") or an error ("err"); it is the iterator afterwards.
caseResult(kind, pcase, it) == [kind |-> kind, pcase |-> pcase, it |-> it]

\* parsePluralCase, its last loop: collect all operations until the end of
\* the translation.
RECURSIVE parseCaseBody(_, _)
parseCaseBody(it, pcase) ==
    IF ~HasNext(it) THEN caseResult("case", pcase, it)
    ELSE LET token == NextTok(it)
             n == NextIt(it)
         IN  IF token.TokenType = "pluralTranslationEnd" THEN caseResult("case", pcase, n)
             ELSE IF token.TokenType = "literal"
             THEN parseCaseBody(n, [pcase EXCEPT !.Ops = Append(pcase.Ops, LiteralOp(token.Data))])
             ELSE IF token.TokenType = "pluralCount"
             THEN parseCaseBody(n, [pcase EXCEPT !.Ops = Append(pcase.Ops, PluralCountOp)])
             ELSE parseCaseBody(n, pcase)

\* parsePluralCase after the case type and args: the translation opening.
parseCaseStart(it, pcase) ==
    IF ~NextOk(it) THEN caseResult("nil", pcase, it)
    ELSE IF NextTok(it).TokenType # "pluralTranslationStart"
         THEN caseResult("err", pcase, NextIt(it))
         ELSE parseCaseBody(NextIt(it), pcase)

\* The first loop of parsePluralCase writing every number to A.
RECURSIVE parseCaseArgs_OnlyA(_, _)
parseCaseArgs_OnlyA(it, pcase) ==
    IF ~HasNext(it) THEN parseCaseStart(it, pcase)
    ELSE LET token == PeekTok(it)
         IN  IF token.TokenType = "pluralTranslationStart" THEN parseCaseStart(it, pcase)
             ELSE IF token.TokenType = "pluralNumeric"
             THEN IF ~AtoiOk(token.Data) THEN caseResult("err", pcase, it)
                  ELSE parseCaseArgs_OnlyA(NextIt(it), [pcase EXCEPT !.A = Atoi(token.Data)])
             ELSE IF token.TokenType = "pluralRange"
             THEN parseCaseArgs_OnlyA(NextIt(it), [pcase EXCEPT !.Type = "OpPluralCaseTypeRange"])
             ELSE IF token.TokenType = "pluralOther"
             THEN parseCaseArgs_OnlyA(NextIt(it), [pcase EXCEPT !.Type = "OpPluralCaseOther"])
             ELSE caseResult("err", pcase, it)

\* parsePluralCase, its first loop: the case type and args.
RECURSIVE parseCaseArgs(_, _)
parseCaseArgs(it, pcase) ==
    IF ~HasNext(it) THEN parseCaseStart(it, pcase)
    ELSE LET token == PeekTok(it)
         IN  IF token.TokenType = "pluralTranslationStart" THEN parseCaseStart(it, pcase)
             ELSE IF token.TokenType = "pluralNumeric"
             THEN IF ~AtoiOk(token.Data) THEN caseResult("err", pcase, it)
                  ELSE IF pcase.Type # "OpPluralCaseTypeRange"
                  THEN parseCaseArgs(NextIt(it), [pcase EXCEPT !.A = Atoi(token.Data)])
                  ELSE parseCaseArgs(NextIt(it), [pcase EXCEPT !.B = Atoi(token.Data)])
             ELSE IF token.TokenType = "pluralRange"
             THEN parseCaseArgs(NextIt(it), [pcase EXCEPT !.Type = "OpPluralCaseTypeRange"])
             ELSE IF token.TokenType = "pluralOther"
             THEN parseCaseArgs(NextIt(it), [pcase EXCEPT !.Type = "OpPluralCaseOther"])
             ELSE caseResult("err", pcase, it)

parsePluralCase(it) ==
    IF ~PeekOk(it) THEN caseResult("nil", newPluralCase, it)
    ELSE IF PeekTok(it).TokenType \notin {"pluralNumeric", "pluralOther"}
         THEN caseResult("nil", newPluralCase, it)
         ELSE parseCaseArgs(it, newPluralCase)

\* The loop over the cases keeping the other case in Cases as well.
RECURSIVE parsePluralCases_OtherInCases(_, _)
parsePluralCases_OtherInCases(it, plural) ==
    IF ~HasNext(it) THEN [err |-> FALSE, plural |-> plural, it |-> it]
    ELSE LET r == parsePluralCase(it)
         IN  IF r.kind = "err" THEN [err |-> TRUE, plural |-> plural, it |-> r.it]
             ELSE IF r.kind = "nil" THEN [err |-> FALSE, plural |-> plural, it |-> r.it]
             ELSE IF r.pcase.Type = "OpPluralCaseOther"
             THEN parsePluralCases_OtherInCases(r.it,
                      [plural EXCEPT !.Other = r.pcase.Ops,
                                     !.Cases = Append(plural.Cases, r.pcase)])
             ELSE parsePluralCases_OtherInCases(r.it,
                      [plural EXCEPT !.Cases = Append(plural.Cases, r.pcase)])

\* parseTransformers, case "plural": parse all cases.  [err, plural, it].
RECURSIVE parsePluralCases(_, _)
parsePluralCases(it, plural) ==
    IF ~HasNext(it) THEN [err |-> FALSE, plural |-> plural, it |-> it]
    ELSE LET r == parsePluralCase(it)
         IN  IF r.kind = "err" THEN [err |-> TRUE, plural |-> plural, it |-> r.it]
             ELSE IF r.kind = "nil" THEN [err |-> FALSE, plural |-> plural, it |-> r.it]
             ELSE IF r.pcase.Type = "OpPluralCaseOther"
             THEN parsePluralCases(r.it, [plural EXCEPT !.Other = r.pcase.Ops])
             ELSE parsePluralCases(r.it, [plural EXCEPT !.Cases = Append(plural.Cases, r.pcase)])

\* parseTransformers without the check for a missing 'other' case.
RECURSIVE parseTransformersFrom_NoOtherCheck(_, _)
parseTransformersFrom_NoOtherCheck(it, transformers) ==
    IF ~HasNext(it) THEN [err |-> FALSE, transformers |-> transformers, it |-> it]
    ELSE IF PeekTok(it).TokenType # "transformer"
    THEN [err |-> FALSE, transformers |-> transformers, it |-> it]
    ELSE LET token == NextTok(it)
             n == NextIt(it)
         IN  IF token.Data = strCapitalize
             THEN parseTransformersFrom_NoOtherCheck(n, Append(transformers, CapitalizeTransformer))
             ELSE IF token.Data = strReplace
             THEN parseTransformersFrom_NoOtherCheck(n, Append(transformers, ReplaceTransformer))
             ELSE IF token.Data = strPlural
             THEN LET r == parsePluralCases(n, PluralTransformer(<<>>, <<>>))
                  IN  IF r.err THEN [err |-> TRUE, transformers |-> <<>>, it |-> r.it]
                      ELSE parseTransformersFrom_NoOtherCheck(r.it, Append(transformers, r.plural))
             ELSE parseTransformersFrom_NoOtherCheck(n, transformers)

\* parseTransformers: [err, transformers, it].
RECURSIVE parseTransformersFrom(_, _)
parseTransformersFrom(it, transformers) ==
    IF ~HasNext(it) THEN [err |-> FALSE, transformers |-> transformers, it |-> it]
    ELSE IF PeekTok(it).TokenType # "transformer"
    THEN [err |-> FALSE, transformers |-> transformers, it |-> it]
    ELSE LET token == NextTok(it)
             n == NextIt(it)
         IN  IF token.Data = strCapitalize
             THEN parseTransformersFrom(n, Append(transformers, CapitalizeTransformer))
             ELSE IF token.Data = strReplace
             THEN parseTransformersFrom(n, Append(transformers, ReplaceTransformer))
             ELSE IF token.Data = strPlural
             THEN LET r == parsePluralCases(n, PluralTransformer(<<>>, <<>>))
                  IN  IF r.err THEN [err |-> TRUE, transformers |-> <<>>, it |-> r.it]
                      ELSE IF Len(r.plural.Other) = 0
                      THEN [err |-> TRUE, transformers |-> <<>>, it |-> r.it]
                      ELSE parseTransformersFrom(r.it, Append(transformers, r.plural))
             ELSE parseTransformersFrom(n, transformers)

parseTransformers(it) == parseTransformersFrom(it, <<>>)

Message(ops) == [Ops |-> ops]

\* Parse, the loop over the tokens: [err, msg]; msg is nil (here the empty
\* Message) on an error.
RECURSIVE parseOps(_, _)
parseOps(it, ops) ==
    IF ~HasNext(it) THEN [err |-> FALSE, msg |-> Message(ops)]
    ELSE LET token == NextTok(it)
             n == NextIt(it)
         IN  IF token.TokenType = "literal"
             THEN parseOps(n, Append(ops, LiteralOp(token.Data)))
             ELSE IF token.TokenType = "replacement"
             THEN LET r == parseTransformers(n)
                  IN  IF r.err THEN [err |-> TRUE, msg |-> Message(<<>>)]
                      ELSE parseOps(r.it, Append(ops, ReplacementOp(token.Data, r.transformers)))
             ELSE parseOps(n, ops)

\* Parse after runLexer has returned the tokens.
parseTokens(toks) == parseOps(newIterator(toks), <<>>)

Parse(in) ==
    LET lexed == runLexer(in)
    IN  IF lexed.err THEN [err |-> TRUE, msg |-> Message(<<>>)]
        ELSE parseTokens(lexed.tokens)

(***************************************************************************)
(* parser.go: Message.Raw, the serialisation of a Message.                 *)
(***************************************************************************)
\* The loops over c.Ops and t.Other: a literal verbatim, '#' for a count.
RECURSIVE rawBody(_)
rawBody(ops) ==
    IF ops = <<>> THEN <<>>
    ELSE (IF Head(ops).op = "LiteralOp" THEN Head(ops).Value
          ELSE IF Head(ops).op = "PluralCountOp" THEN <<"#">>
          ELSE <<>>) \o rawBody(Tail(ops))

\* rawCase writing a range case like an exact one.
rawCase_NoRange(c) ==
    <<"=">> \o Itoa(c.A) \o <<" ", "{">> \o rawBody(c.Ops) \o <<"}">>

rawCase(c) ==
    <<"=">>
    \o (IF c.Type = "OpPluralCaseTypeRange"
        THEN Itoa(c.A) \o <<"-">> \o Itoa(c.B)
        ELSE Itoa(c.A))
    \o <<" ", "{">> \o rawBody(c.Ops) \o <<"}">>

RECURSIVE rawCases(_)
rawCases(cases) ==
    IF cases = <<>> THEN <<>> ELSE rawCase(Head(cases)) \o rawCases(Tail(cases))

\* rawTransformer without the '|' before the name.
rawTransformer_NoBar(t) ==
    IF t.t = "CapitalizeTransformer" THEN strCapitalize
    ELSE IF t.t = "ReplaceTransformer" THEN strReplace
    ELSE strPlural \o <<"(">> \o rawCases(t.Cases)
         \o (IF Len(t.Other) > 0
             THEN <<" ">> \o strOther \o <<" ", "{">> \o rawBody(t.Other) \o <<"}">>
             ELSE <<>>)
         \o <<")">>

rawTransformer(t) ==
    <<"|">>
    \o (IF t.t = "CapitalizeTransformer" THEN strCapitalize
        ELSE IF t.t = "ReplaceTransformer" THEN strReplace
        ELSE strPlural \o <<"(">> \o rawCases(t.Cases)
             \o (IF Len(t.Other) > 0
                 THEN <<" ">> \o strOther \o <<" ", "{">> \o rawBody(t.Other) \o <<"}">>
                 ELSE <<>>)
             \o <<")">>)

RECURSIVE rawTransformers(_)
rawTransformers(ts) ==
    IF ts = <<>> THEN <<>> ELSE rawTransformer(Head(ts)) \o rawTransformers(Tail(ts))

rawOp(o) ==
    IF o.op = "LiteralOp" THEN o.Value
    ELSE <<":">> \o o.Key \o rawTransformers(o.Transformers)

RECURSIVE rawOps(_)
rawOps(ops) == IF ops = <<>> THEN <<>> ELSE rawOp(Head(ops)) \o rawOps(Tail(ops))

Raw(m) == rawOps(m.Ops)

(***************************************************************************)
(* parser.go: PluralCase.Match.                                            *)
(***************************************************************************)
Match(c, count) ==
    IF c.Type = "OpPluralCaseTypeRange" THEN count >= c.A /\ count <= c.B
    ELSE IF c.Type = "OpPluralCaseTypeExact" THEN count = c.A
    ELSE FALSE

(***************************************************************************)
(* container.go: Container.format.                                         *)
(***************************************************************************)
\* utf8.RuneError, what DecodeRuneInString returns (with size 0) for the
\* empty string: one scalar, U+FFFD.
RuneError == "U+FFFD"

upperOf ==
    "a" :> "A" @@ "b" :> "B" @@ "c" :> "C" @@ "d" :> "D" @@ "e" :> "E" @@ "f" :> "F" @@
    "g" :> "G" @@ "h" :> "H" @@ "i" :> "I" @@ "j" :> "J" @@ "k" :> "K" @@ "l" :> "L" @@
    "m" :> "M" @@ "n" :> "N" @@ "o" :> "O" @@ "p" :> "P" @@ "q" :> "Q" @@ "r" :> "R" @@
    "s" :> "S" @@ "t" :> "T" @@ "u" :> "U" @@ "v" :> "V" @@ "w" :> "W" @@ "x" :> "X" @@
    "y" :> "Y" @@ "z" :> "Z"

\* unicode.ToUpper on the model's characters.
ToUpper(r) == IF r \in lowercase THEN upperOf[r] ELSE r

\* capitalize putting the uppercase scalar in front of the whole value,
\* value[size:] forgotten.
capitalize_KeepsFirst(value) ==
    IF value = <<>> THEN <<ToUpper(RuneError)>>
    ELSE <<ToUpper(value[1])>> \o value

\* case parser.CapitalizeTransformer
capitalize(value) ==
    IF value = <<>> THEN <<ToUpper(RuneError)>>
    ELSE <<ToUpper(value[1])>> \o Tail(value)

\* case parser.ReplaceTransformer
replace(value, messages) ==
    IF value \in DOMAIN messages THEN Raw(messages[value]) ELSE value

\* count, err := strconv.Atoi(value); if err != nil { count = 0 }
pluralCountOf(value) == IF AtoiOk(value) THEN Atoi(value) ELSE 0

\* The loop over t.Cases without its break: the last matching case wins.
RECURSIVE matchedOps_LastWins(_, _)
matchedOps_LastWins(cases, count) ==
    IF cases = <<>> THEN <<>>
    ELSE IF Match(cases[Len(cases)], count) THEN cases[Len(cases)].Ops
    ELSE matchedOps_LastWins(SubSeq(cases, 1, Len(cases) - 1), count)

\* The loop over t.Cases with its break: the Ops of the first case that
\* matches, nil (empty) if none does.
RECURSIVE matchedOps(_, _)
matchedOps(cases, count) ==
    IF cases = <<>> THEN <<>>
    ELSE IF Match(Head(cases), count) THEN Head(cases).Ops
    ELSE matchedOps(Tail(cases), count)

\* if len(ops) == 0 { ops = t.Other }
selectOps(t, count) ==
    LET ops == matchedOps(t.Cases, count)
    IN  IF Len(ops) = 0 THEN t.Other ELSE ops

\* The loop writing the selected ops without its case for PluralCountOp.
RECURSIVE writeOps_NoCount(_, _)
writeOps_NoCount(ops, count) ==
    IF ops = <<>> THEN <<>>
    ELSE (IF Head(ops).op = "LiteralOp" THEN Head(ops).Value ELSE <<>>)
         \o writeOps_NoCount(Tail(ops), count)

\* The loop writing the selected ops to replacementB.
RECURSIVE writeOps(_, _)
writeOps(ops, count) ==
    IF ops = <<>> THEN <<>>
    ELSE (IF Head(ops).op = "LiteralOp" THEN Head(ops).Value
          ELSE IF Head(ops).op = "PluralCountOp" THEN Itoa(count)
          ELSE <<>>) \o writeOps(Tail(ops), count)

\* case parser.PluralTransformer
plural(t, value) ==
    LET count == pluralCountOf(value)
    IN  writeOps(selectOps(t, count), count)

applyTransformer(t, value, messages) ==
    IF t.t = "CapitalizeTransformer" THEN capitalize(value)
    ELSE IF t.t = "ReplaceTransformer" THEN replace(value, messages)
    ELSE plural(t, value)

\* The transformers applied from the last one written to the first.
RECURSIVE applyTransformers_Reversed(_, _, _)
applyTransformers_Reversed(ts, value, messages) ==
    IF ts = <<>> THEN value
    ELSE applyTransformer(Head(ts), applyTransformers_Reversed(Tail(ts), value, messages),
                          messages)

\* for _, transformer := range v.Transformers
RECURSIVE applyTransformers(_, _, _)
applyTransformers(ts, value, messages) ==
    IF ts = <<>> THEN value
    ELSE applyTransformers(Tail(ts), applyTransformer(Head(ts), value, messages), messages)

\* formatOp writing the whole source text of a placeholder without a value.
formatOp_KeepsTransformers(o, repl, messages) ==
    IF o.op = "LiteralOp" THEN o.Value
    ELSE IF o.Key \notin DOMAIN repl THEN <<":">> \o o.Key \o rawTransformers(o.Transformers)
    ELSE applyTransformers(o.Transformers, repl[o.Key], messages)

formatOp(o, repl, messages) ==
    IF o.op = "LiteralOp" THEN o.Value
    ELSE IF o.Key \notin DOMAIN repl THEN <<":">> \o o.Key
    ELSE applyTransformers(o.Transformers, repl[o.Key], messages)

RECURSIVE formatOps(_, _, _)
formatOps(ops, repl, messages) ==
    IF ops = <<>> THEN <<>>
    ELSE formatOp(Head(ops), repl, messages) \o formatOps(Tail(ops), repl, messages)

format(m, repl, messages) == formatOps(m.Ops, repl, messages)

(***************************************************************************)
(* The templates, replacement maps and sibling messages of the model.      *)
(***************************************************************************)
RECURSIVE Flatten(_)
Flatten(ss) == IF ss = <<>> THEN <<>> ELSE Head(ss) \o Flatten(Tail(ss))

SeqsUpTo(S, n) == UNION {[1..k -> S] : k \in 0..n}

\* Pieces of template text outside a plural argument list.
FreeChunks ==
    { <<":">>, <<"a">>, <<"\\">>, <<" ">>, <<"|">>, <<":", "b">>,
      <<"|">> \o strCapitalize, <<"|">> \o strReplace }

FreeInputs == {Flatten(cs) : cs \in SeqsUpTo(FreeChunks, MaxChunks)}

\* Plural arguments: "=0 {}", "=1 {a}", "=1-2 {b#}", "other {#c#}",
\* "other {}" and " x=02{e}".
CaseChunks ==
    { <<"=", "0", " ", "{", "}">>,
      <<"=", "1", " ", "{", "a", "}">>,
      <<"=", "1", "-", "2", " ", "{", "b", "#", "}">>,
      strOther \o <<" ", "{", "#", "c", "#", "}">>,
      strOther \o <<" ", "{", "}">>,
      <<" ", "x", "=", "0", "2", "{", "e", "}">> }

PluralPre == { <<>>, <<":", "b", " ">> }

PluralPost == { <<>>, <<"|">> \o strCapitalize, <<":", "b">> }

PluralInputs ==
    { pre \o <<":", "a", "|">> \o strPlural \o <<"(">> \o Flatten(cs) \o <<")">> \o post :
        pre \in PluralPre, cs \in SeqsUpTo(CaseChunks, MaxCases), post \in PluralPost }

\* ":a|plural(=1-2 {b#} other {c})", cut off anywhere.
tOpenPlural ==
    <<":", "a", "|">> \o strPlural
        \o <<"(", "=", "1", "-", "2", " ", "{", "b", "#", "}", " ">>
        \o strOther \o <<" ", "{", "c", "}", ")">>

Prefixes(t) == {SubSeq(t, 1, n) : n \in 0..Len(t)}

\* Transformer names that are none, and text between plural arguments that
\* is no argument.
BadNames ==
    { <<"x">>, strPlural \o <<"s", "(">>, strPlural \o <<" ", "(">>, strPlural \o <<"a">>,
      strReplace \o <<"d">>, <<"C">> \o Tail(strCapitalize), <<"1">> }

BadArgs ==
    { <<"x">>, <<"1", " ", "{", "a", "}">>, <<"}">>, <<"o", " ", "=", "1", "{", "a", "}">>,
      <<"-", "1", "{", "a", "}">>, <<"#">>, <<"=", "1", "-", "{", "a", "}">> }

\* Colons before an uppercase letter, a digit, a sign and the end.
ColonInputs ==
    { <<":", "A">>, <<":", "1", "b">>, <<"a", ":">>, <<":", "-", ":">>,
      <<"e", ":", "A", ":", " ", "b", ":">>, <<":", "|">> \o strPlural \o <<"(", ")">> }

\* Cases "=2-1 {b}", "=007 {a}", and numbers of twenty digits.
tTwentyNines == [i \in 1..20 |-> "9"]

NumberArgs ==
    { <<"=", "2", "-", "1", " ", "{", "b", "}">>,
      <<"=", "0", "0", "7", " ", "{", "a", "}", "=", "3", "-", "3", "{", "b", "}">>,
      <<"=">> \o tTwentyNines \o <<" ", "{", "a", "}">>,
      <<"=", "1", "-">> \o tTwentyNines \o <<" ", "{", "a", "}">> }

NumberInputs ==
    { <<":", "a", "|">> \o strPlural \o <<"(">> \o a \o <<" ">> \o strOther
        \o <<" ", "{", "c", "}", ")">> : a \in NumberArgs }

\* A '|' after the ')' of a plural, with and without a name after it.
BarInputs ==
    { <<":", "a", "|">> \o strPlural \o <<"(">> \o strOther \o <<"{", "c", "}", ")", "|">> \o post :
        post \in { <<>>, <<" ", "b">>, <<":", "b">>, strReplace, strReplace \o <<"|">> } }

EdgeInputs ==
    Prefixes(tOpenPlural)
    \cup BarInputs
    \cup ColonInputs
    \cup NumberInputs
    \cup { <<":", "a", "|">> \o n \o post : n \in BadNames, post \in { <<>>, <<" ", "e">> } }
    \cup { <<":", "a", "|">> \o strPlural \o <<"(">> \o pre \o a \o post \o <<")">> :
             pre \in { <<>>, <<" ">> }, a \in BadArgs,
             post \in { <<>>, <<" ">> \o strOther \o <<"{", "c", "}">> } }

Inputs == FreeInputs \cup PluralInputs \cup EdgeInputs

\* Values given for the key "a".
Values == { <<>>, <<"0">>, <<"1">>, <<"2">>, <<"3">>, <<"0", "2">>, <<"b">>, <<"B">> }

\* The replacement maps (already formatted to strings) of a render call.
ReplMaps ==
    { <<>>, <<"b">> :> <<"b">>, <<"a">> :> <<"1">> }
    \cup { (<<"a">> :> v) @@ (<<"b">> :> <<"b">>) : v \in Values }

\* The messages of the language scope, by key: "b" is "e:a|capitalize",
\* "B" is "E".
Scope ==
    (<<"b">> :> Parse(<<"e", ":", "a", "|">> \o strCapitalize).msg)
    @@ (<<"B">> :> Parse(<<"E">>).msg)

(***************************************************************************)
(* The state machine: runLexer's loop one state function at a time, then   *)
(* the rest of Parse, then a Raw or a format call on the Message.          *)
(***************************************************************************)
L == [input |-> input, start |-> start, pos |-> pos, width |-> width,
      tokens |-> tokens, state |-> state]

SetLexer(l) ==
    /\ input' = l.input
    /\ start' = l.start
    /\ pos' = l.pos
    /\ width' = l.width
    /\ tokens' = l.tokens
    /\ state' = l.state

lexerVars == <<input, state, start, pos, width, tokens>>

Init ==
    /\ input \in Inputs
    /\ state = "lexLiteral"
    /\ start = 0
    /\ pos = 0
    /\ width = 0
    /\ tokens = <<>>
    /\ phase = "lex"
    /\ msg = Message(<<>>)
    /\ replacements = <<>>
    /\ out = <<>>
    /\ calls = <<>>
    /\ c_messages = <<>>
    /\ defaultLanguage = [Language |-> "", Region |-> ""]
    /\ from_messages = <<>>
    /\ ctx = <<>>
    /\ call = [op |-> "none"]
    /\ fs = <<>>
    /\ index = -1

LexLiteral ==
    /\ phase = "lex"
    /\ state = "lexLiteral"
    /\ SetLexer(lexLiteral(L))
    /\ UNCHANGED <<phase, msg, replacements, out, calls, containerVars>>

LexerPlaceholder ==
    /\ phase = "lex"
    /\ state = "lexerPlaceholder"
    /\ SetLexer(lexerPlaceholder(L))
    /\ UNCHANGED <<phase, msg, replacements, out, calls, containerVars>>

LexerTransformer ==
    /\ phase = "lex"
    /\ state = "lexerTransformer"
    /\ SetLexer(lexerTransformer(L))
    /\ UNCHANGED <<phase, msg, replacements, out, calls, containerVars>>

LexerPluralArgs ==
    /\ phase = "lex"
    /\ state = "lexerPluralArgs"
    /\ SetLexer(lexerPluralArgs(L))
    /\ UNCHANGED <<phase, msg, replacements, out, calls, containerVars>>

LexerPluralNumericArg ==
    /\ phase = "lex"
    /\ state = "lexerPluralNumericArg"
    /\ SetLexer(lexerPluralNumericArg(L))
    /\ UNCHANGED <<phase, msg, replacements, out, calls, containerVars>>

LexerPluralTranslation ==
    /\ phase = "lex"
    /\ state = "lexerPluralTranslation"
    /\ SetLexer(lexerPluralTranslation(L))
    /\ UNCHANGED <<phase, msg, replacements, out, calls, containerVars>>

\* Parse once the state loop has ended: runLexer's check for an error token,
\* then the loop over the tokens.
DoParse ==
    /\ phase = "lex"
    /\ state = "nil"
    /\ LET r == IF lexFailed(tokens) THEN [err |-> TRUE, msg |-> Message(<<>>)]
                ELSE parseTokens(tokens)
       IN  /\ phase' = IF r.err THEN "failed" ELSE "parsed"
           /\ msg' = r.msg
    /\ UNCHANGED <<lexerVars, replacements, out, calls, containerVars>>

\* Message.Raw on the parsed Message.
DoRaw ==
    /\ phase = "parsed"
    /\ phase' = "raw"
    /\ out' = Raw(msg)
    /\ UNCHANGED <<lexerVars, msg, replacements, calls, containerVars>>

\* Container.format on the parsed Message.
DoFormat ==
    /\ phase = "parsed"
    /\ \E repl \in ReplMaps :
        /\ replacements' = repl
        /\ out' = format(msg, repl, Scope)
    /\ phase' = "rendered"
    /\ UNCHANGED <<lexerVars, msg, calls, containerVars>>

Next ==
    \/ LexLiteral
    \/ LexerPlaceholder
    \/ LexerTransformer
    \/ LexerPluralArgs
    \/ LexerPluralNumericArg
    \/ LexerPluralTranslation
    \/ DoParse
    \/ DoRaw
    \/ DoFormat

Spec == Init /\ [][Next]_vars

\* for state := lexLiteral; state != nil; { state = state(l) }: one turn of
\* the loop of runLexer.
LexStep ==
    /\ phase = "lex"
    /\ state # "nil"
    /\ \E l \in {stateFn(L)} : SetLexer(l)
    /\ UNCHANGED <<phase, msg, replacements, out, calls, containerVars>>

\* The loop of runLexer is not left while the state is not nil: weak
\* fairness of LexStep, which can be taken exactly when the state is not
\* nil.
SpecLive == Spec /\ (<>[](state # "nil") => []<><<LexStep>>_vars)

(***************************************************************************)
(* Concurrent render calls: Container.format called by several goroutines  *)
(* on the same Message and sibling table.  A step is one iteration of the  *)
(* loop over msg.Ops; the builders b and replacementB, the value and the   *)
(* loop position are locals of the call.                                   *)
(***************************************************************************)
MaxCallers == 2

Callers == 1..MaxCallers

\* ":b :a|plural(=1 {a}other {#c#}):b" and ":a|capitalize:b|replace".
RenderInputs ==
    { <<":", "b", " ", ":", "a", "|">> \o strPlural
        \o <<"(", "=", "1", " ", "{", "a", "}">> \o strOther
        \o <<" ", "{", "#", "c", "#", "}", ")", ":", "b">>,
      <<":", "a", "|">> \o strCapitalize \o <<":", "b", "|">> \o strReplace }

\* The replacement maps the callers pass.
RenderMaps ==
    { <<>>,
      (<<"a">> :> <<"1">>) @@ (<<"b">> :> <<"b">>),
      (<<"a">> :> <<"2">>) @@ (<<"b">> :> <<"b">>) }

\* A caller that has not called format yet.
idleCall == [pc |-> "idle", replacements |-> <<>>, i |-> 1, b |-> <<>>, ret |-> <<>>]

InitRender ==
    /\ input \in RenderInputs
    /\ state = "nil"
    /\ start = 0
    /\ pos = 0
    /\ width = 0
    /\ tokens = <<>>
    /\ phase = "render"
    /\ msg = Parse(input).msg
    /\ replacements = <<>>
    /\ out = <<>>
    /\ calls = [c \in Callers |-> idleCall]
    /\ c_messages = <<>>
    /\ defaultLanguage = [Language |-> "", Region |-> ""]
    /\ from_messages = <<>>
    /\ ctx = <<>>
    /\ call = [op |-> "none"]
    /\ fs = <<>>
    /\ index = -1

\* One loop over msg.Ops with every caller writing to one and the same
\* builder b.
writeOp_SharedBuilder(cs, c, m) ==
    LET piece == formatOp(m.Ops[cs[c].i], cs[c].replacements, Scope)
    IN  [d \in DOMAIN cs |->
            [cs[d] EXCEPT !.b = @ \o piece,
                          !.i = IF d = c THEN @ + 1 ELSE @]]

\* One iteration of `for _, t := range msg.Ops` by caller c: the text of
\* the operation is written to the caller's own builder b.
writeOp(cs, c, m) ==
    [cs EXCEPT ![c].b = @ \o formatOp(m.Ops[cs[c].i], cs[c].replacements, Scope),
               ![c].i = @ + 1]

\* Caller c enters format with its replacement map: var b strings.Builder.
FormatCall(c) ==
    /\ phase = "render"
    /\ calls[c].pc = "idle"
    /\ \E repl \in RenderMaps :
          calls' = [calls EXCEPT ![c] = [pc |-> "loop", replacements |-> repl,
                                         i |-> 1, b |-> <<>>, ret |-> <<>>]]
    /\ UNCHANGED <<lexerVars, phase, msg, replacements, out, containerVars>>

FormatOp(c) ==
    /\ phase = "render"
    /\ calls[c].pc = "loop"
    /\ calls[c].i <= Len(msg.Ops)
    /\ calls' = writeOp(calls, c, msg)
    /\ UNCHANGED <<lexerVars, phase, msg, replacements, out, containerVars>>

\* return b.String()
FormatReturn(c) ==
    /\ phase = "render"
    /\ calls[c].pc = "loop"
    /\ calls[c].i > Len(msg.Ops)
    /\ calls' = [calls EXCEPT ![c].pc = "done", ![c].ret = calls[c].b]
    /\ UNCHANGED <<lexerVars, phase, msg, replacements, out, containerVars>>

NextRender ==
    \E c \in Callers :
        \/ FormatCall(c)
        \/ FormatOp(c)
        \/ FormatReturn(c)

SpecRender == InitRender /\ [][NextRender]_vars

(***************************************************************************)
(* language.go: LanguageID, the language of a context, ParseLanguage.      *)
(***************************************************************************)
LanguageID(language, region) == [Language |-> language, Region |-> region]

\* LanguageID{}
NoLanguage == LanguageID("", "")

Empty(l) == l.Language = "" /\ l.Region = ""

\* LanguageID.Match
MatchLanguage(l, cmp) ==
    IF l.Language = cmp.Language /\ l.Region = cmp.Region
    THEN [match |-> TRUE, strongMatch |-> TRUE]
    ELSE IF l.Language = cmp.Language
    THEN [match |-> TRUE, strongMatch |-> FALSE]
    ELSE [match |-> FALSE, strongMatch |-> FALSE]

languageKey == "locale"

\* A context is the function from its keys to their values.
fromCtx(c) == IF languageKey \in DOMAIN c THEN c[languageKey] ELSE NoLanguage

toCtx(c, id) == [k \in DOMAIN c \cup {languageKey} |-> IF k = languageKey THEN id ELSE c[k]]

\* ParseLanguage on the raw strings of the model: what langRe matches and
\* language.Parse makes of it.  "" has no match, "invalid" and "xx" are no
\* known languages, and language.Parse canonicalizes the deprecated "iw" to
\* "he".
ParseLanguage(raw) ==
    CASE raw = "en"             -> [err |-> FALSE, id |-> LanguageID("en", "")]
      [] raw = "nl"             -> [err |-> FALSE, id |-> LanguageID("nl", "")]
      [] raw = "en-US"          -> [err |-> FALSE, id |-> LanguageID("en", "US")]
      [] raw = "en_GB"          -> [err |-> FALSE, id |-> LanguageID("en", "GB")]
      [] raw = "en-GB,en;q=0.5" -> [err |-> FALSE, id |-> LanguageID("en", "GB")]
      [] raw = "he"             -> [err |-> FALSE, id |-> LanguageID("he", "")]
      [] raw = "iw"             -> [err |-> FALSE, id |-> LanguageID("he", "")]
      [] OTHER                  -> [err |-> TRUE, id |-> NoLanguage]

WithLanguage(c, raw) ==
    IF ParseLanguage(raw).err THEN c ELSE toCtx(c, ParseLanguage(raw).id)

(***************************************************************************)
(* container.go: Container.ScopedLanguage and Container.Message.           *)
(***************************************************************************)
\* The orders in which a range over a map with the keys S can visit them.
Orders(S) ==
    {o \in [1..Cardinality(S) -> S] : \A i, j \in DOMAIN o : i # j => o[i] # o[j]}

\* The loop of ScopedLanguage going on to the last language that matches,
\* the return on an exact match left out.
RECURSIVE scopedLoop_NoReturn(_, _, _)
scopedLoop_NoReturn(order, lang, firstMatch) ==
    IF order = <<>> THEN [exact |-> FALSE, lang |-> firstMatch]
    ELSE scopedLoop_NoReturn(Tail(order), lang,
            IF MatchLanguage(Head(order), lang).match THEN Head(order) ELSE firstMatch)

\* for scoped := range c.messages, in the given order: returns at an exact
\* match, keeps in firstMatch every other match it passes.
RECURSIVE scopedLoop(_, _, _)
scopedLoop(order, lang, firstMatch) ==
    IF order = <<>> THEN [exact |-> FALSE, lang |-> firstMatch]
    ELSE LET m == MatchLanguage(Head(order), lang)
         IN  IF m.match /\ m.strongMatch THEN [exact |-> TRUE, lang |-> Head(order)]
             ELSE scopedLoop(Tail(order), lang,
                             IF m.match THEN Head(order) ELSE firstMatch)

\* Container.ScopedLanguage for one iteration order of c.messages.
ScopedLanguage(msgs, default, c, order) ==
    IF Empty(fromCtx(c)) /\ Empty(default) THEN NoLanguage
    ELSE LET lang == IF Empty(fromCtx(c)) THEN default ELSE fromCtx(c)
             r == scopedLoop(order, lang, NoLanguage)
         IN  IF r.exact THEN r.lang
             ELSE IF ~Empty(r.lang) THEN r.lang
             ELSE IF ~Empty(default) THEN default
             ELSE NoLanguage

\* formatReplacement on a string, an integer or a bool; "" for a value of
\* no supported type.
formatReplacement(value) ==
    CASE value.type = "string" -> value.s
      [] value.type = "int"    -> Itoa(value.n)
      [] value.type = "bool"   -> IF value.b THEN <<"t", "r", "u", "e">>
                                  ELSE <<"f", "a", "l", "s", "e">>
      [] OTHER                 -> <<>>

\* Container.Message returning the empty string for a key the scope lacks.
ContainerMessage_EmptyForMissingKey(msgs, default, c, order, key, repl) ==
    LET lang == ScopedLanguage(msgs, default, c, order)
    IN  IF Empty(lang) THEN key
        ELSE LET scope == IF lang \in DOMAIN msgs THEN msgs[lang] ELSE <<>>
             IN  IF key \notin DOMAIN scope THEN <<>>
                 ELSE format(scope[key],
                             [k \in DOMAIN repl |-> formatReplacement(repl[k])], scope)

\* Container.Message; the scope of a language that is not loaded is the nil
\* map.
ContainerMessage(msgs, default, c, order, key, repl) ==
    LET lang == ScopedLanguage(msgs, default, c, order)
    IN  IF Empty(lang) THEN key
        ELSE LET scope == IF lang \in DOMAIN msgs THEN msgs[lang] ELSE <<>>
             IN  IF key \notin DOMAIN scope THEN key
                 ELSE format(scope[key],
                             [k \in DOMAIN repl |-> formatReplacement(repl[k])], scope)

(***************************************************************************)
(* A container with loaded languages and a default language, and the calls *)
(* WithLanguage, ScopedLanguage and Message on it.                         *)
(***************************************************************************)
MaxKeys == 2

keyNames == <<"a", "b", "c", "d", "e">>

Keys == {<<keyNames[i]>> : i \in 1..MaxKeys}

\* The languages with a translation file: en, en-US and nl.
LoadedLanguages == {LanguageID("en", ""), LanguageID("en", "US"), LanguageID("nl", "")}

\* No default, a loaded one, and one without a file.
DefaultLanguages == {NoLanguage, LanguageID("en", ""), LanguageID("nl", ""), LanguageID("de", "")}

RawLanguages == {"en", "nl", "en-US", "en_GB", "en-GB,en;q=0.5", "invalid", ""}

\* The message every key of a language file has: "e:a" in en,
\* "u:a|capitalize" in en-US, "n:a" in the others.
messageOf(l) ==
    IF l = LanguageID("en", "") THEN Parse(<<"e", ":", "a">>).msg
    ELSE IF l = LanguageID("en", "US") THEN Parse(<<"u", ":", "a", "|">> \o strCapitalize).msg
    ELSE Parse(<<"n", ":", "a">>).msg

\* The containers: any set of loaded languages, each with all the keys or
\* with the first key only.
Containers ==
    { [l \in ls |-> [k \in (IF l \in short THEN {<<keyNames[1]>>} ELSE Keys) |-> messageOf(l)]] :
        ls \in SUBSET LoadedLanguages, short \in SUBSET LoadedLanguages }

\* The keys asked for: those of the files and one no file has.
QueryKeys == Keys \cup {<<"z">>}

\* The replacements of a Message call (map[string]any).
Args ==
    { <<>>,
      <<"a">> :> [type |-> "string", s |-> <<"b">>],
      <<"a">> :> [type |-> "int", n |-> 2] }

InitContainer ==
    /\ input = <<>>
    /\ state = "nil"
    /\ start = 0
    /\ pos = 0
    /\ width = 0
    /\ tokens = <<>>
    /\ phase = "container"
    /\ msg = Message(<<>>)
    /\ replacements = <<>>
    /\ out = <<>>
    /\ calls = <<>>
    /\ c_messages \in Containers
    /\ defaultLanguage \in DefaultLanguages
    /\ from_messages = <<>>
    /\ ctx = <<>>
    /\ call = [op |-> "none", raw |-> "-"]
    /\ fs = <<>>
    /\ index = -1

\* ctx = WithLanguage(ctx, raw); call.raw remembers the last raw string.
CallWithLanguage ==
    /\ phase = "container"
    /\ \E raw \in RawLanguages :
          /\ ctx' = WithLanguage(ctx, raw)
          /\ call' = [op |-> "WithLanguage", raw |-> raw]
    /\ UNCHANGED <<lexerVars, phase, msg, replacements, out, calls,
                   c_messages, defaultLanguage, from_messages, fs, index>>

\* c.ScopedLanguage(ctx), the range over c.messages in any order.
CallScopedLanguage ==
    /\ phase = "container"
    /\ \E order \in Orders(DOMAIN c_messages) :
          call' = [op |-> "ScopedLanguage", raw |-> call.raw,
                   lang |-> ScopedLanguage(c_messages, defaultLanguage, ctx, order)]
    /\ UNCHANGED <<lexerVars, phase, msg, replacements, out, calls,
                   c_messages, defaultLanguage, from_messages, ctx, fs, index>>

\* c.Message(ctx, key, replacements); call.lang is the language its
\* ScopedLanguage call returned.
CallMessage ==
    /\ phase = "container"
    /\ \E key \in QueryKeys, repl \in Args, order \in Orders(DOMAIN c_messages) :
          call' = [op |-> "Message", raw |-> call.raw, key |-> key,
                   lang |-> ScopedLanguage(c_messages, defaultLanguage, ctx, order),
                   ret |-> ContainerMessage(c_messages, defaultLanguage, ctx, order,
                                            key, repl)]
    /\ UNCHANGED <<lexerVars, phase, msg, replacements, out, calls,
                   c_messages, defaultLanguage, from_messages, ctx, fs, index>>

NextContainer ==
    \/ CallWithLanguage
    \/ CallScopedLanguage
    \/ CallMessage

SpecContainer == InitContainer /\ [][NextContainer]_vars

(***************************************************************************)
(* container.go: Merge and the merge strategies.                           *)
(***************************************************************************)
SkipAndClean == 0
Skip == 1
Overwrite == 2
OverWriteAndClean == 3

MergeStrategies == {SkipAndClean, Skip, Overwrite, OverWriteAndClean}

\* The first loop of Merge with the Skip case left out: every message of
\* `from` is written.
mergeCopy_NeverSkips(from, to, strategy) ==
    [l \in DOMAIN to \cup {l \in DOMAIN from : DOMAIN from[l] # {}} |->
        LET old == IF l \in DOMAIN to THEN to[l] ELSE <<>>
            w == IF l \in DOMAIN from THEN DOMAIN from[l] ELSE {}
        IN  [k \in DOMAIN old \cup w |-> IF k \in w THEN from[l][k] ELSE old[k]]]

\* The first loop of Merge: every (language, key) of `from` is written to
\* `to` unless the strategy skips and `to` has the key; the map of a
\* language is made at the first write to it.
mergeCopy(from, to, strategy) ==
    LET written(l) ==
            IF l \notin DOMAIN from THEN {}
            ELSE {k \in DOMAIN from[l] :
                    ~(strategy \in {Skip, SkipAndClean}
                        /\ l \in DOMAIN to /\ k \in DOMAIN to[l])}
    IN  [l \in DOMAIN to \cup {l \in DOMAIN from : written(l) # {}} |->
            LET old == IF l \in DOMAIN to THEN to[l] ELSE <<>>
            IN  [k \in DOMAIN old \cup written(l) |->
                    IF k \in written(l) THEN from[l][k] ELSE old[k]]]

\* The second loop deleting only in the languages `from` has.
mergeClean_OnlySharedLanguages(from, to) ==
    [l \in DOMAIN to |->
        [k \in {k \in DOMAIN to[l] : l \in DOMAIN from => k \in DOMAIN from[l]} |->
            to[l][k]]]

\* The second loop of Merge: a key of `to` is deleted when `from` lacks the
\* language or the key; the map of the language stays.
mergeClean(from, to) ==
    [l \in DOMAIN to |->
        [k \in {k \in DOMAIN to[l] : l \in DOMAIN from /\ k \in DOMAIN from[l]} |->
            to[l][k]]]

\* to.messages after Merge(from, to, strategy).
Merge(from, to, strategy) ==
    IF strategy \in {OverWriteAndClean, SkipAndClean}
    THEN mergeClean(from, mergeCopy(from, to, strategy))
    ELSE mergeCopy(from, to, strategy)

MergeLanguages == {LanguageID("en", ""), LanguageID("nl", "")}

\* "Welcome :user" of `to` and "Welcome :user|capitalize" of `from`, as
\* "t:a" and "f:a|capitalize".
toMessage == Parse(<<"t", ":", "a">>).msg

fromMessage == Parse(<<"f", ":", "a", "|">> \o strCapitalize).msg

\* The containers whose files hold message m under any keys, for any of
\* the languages; a file can be empty.
ContainersOf(m) ==
    UNION { [ls -> {[k \in ks |-> m] : ks \in SUBSET Keys}] : ls \in SUBSET MergeLanguages }

InitMerge ==
    /\ input = <<>>
    /\ state = "nil"
    /\ start = 0
    /\ pos = 0
    /\ width = 0
    /\ tokens = <<>>
    /\ phase = "merge"
    /\ msg = Message(<<>>)
    /\ replacements = <<>>
    /\ out = <<>>
    /\ calls = <<>>
    /\ c_messages \in ContainersOf(toMessage)
    /\ defaultLanguage = NoLanguage
    /\ from_messages \in ContainersOf(fromMessage)
    /\ ctx = <<>>
    /\ call = [op |-> "none", raw |-> "-"]
    /\ fs = <<>>
    /\ index = -1

\* from.messages after Merge(from, to, strategy) with a delete in the
\* cleaning loop that takes the keys `to` lacked out of `from`.
mergeFrom_Cleaned(from, to, strategy) ==
    IF strategy \in {OverWriteAndClean, SkipAndClean}
    THEN [l \in DOMAIN from |->
            [k \in {k \in DOMAIN from[l] : l \in DOMAIN to /\ k \in DOMAIN to[l]} |->
                from[l][k]]]
    ELSE from

\* from.messages after Merge(from, to, strategy) on two containers: both
\* loops read from.messages and assign and delete in to.messages only.
mergeFrom(from, to, strategy) == from

\* Merge(from, to, strategy) with c_messages the messages of `to`, and
\* Merge(to, to, strategy) when same; the call keeps what both arguments
\* held before it and the argument it returned.
CallMerge ==
    /\ phase = "merge"
    /\ \E strategy \in MergeStrategies, same \in BOOLEAN :
          \E from \in {IF same THEN c_messages ELSE from_messages} :
             /\ c_messages' = Merge(from, c_messages, strategy)
             /\ from_messages' = IF same THEN from_messages
                                 ELSE mergeFrom(from, c_messages, strategy)
             /\ call' = [op |-> "Merge", raw |-> call.raw, strategy |-> strategy,
                         from |-> from, to |-> c_messages, same |-> same,
                         ret |-> "to"]
    /\ UNCHANGED <<lexerVars, phase, msg, replacements, out, calls,
                   defaultLanguage, ctx, fs, index>>

NextMerge == CallMerge

SpecMerge == InitMerge /\ [][NextMerge]_vars

(***************************************************************************)
(* matcher.go, container.go: the default file matcher, ContainerFromFs and *)
(* Container.addFile on a directory of translation files.  A file is       *)
(* [IsDir, ok, raw]: ok tells whether the YAML decodes to a map of         *)
(* strings, raw is that map.                                               *)
(***************************************************************************)
\* The first capture group of defaultMatcher
\* (`^([a-z]{2}(?:[-][A-Z]{2})?)\.yaml$`) on the names of the model, "" for
\* a name without match.
defaultMatcher(name) ==
    CASE name = "en.yaml"    -> "en"
      [] name = "nl.yaml"    -> "nl"
      [] name = "he.yaml"    -> "he"
      [] name = "iw.yaml"    -> "iw"
      [] name = "xx.yaml"    -> "xx"
      [] OTHER               -> ""

\* RegexMatcher.IsMatch
IsMatch(name) == defaultMatcher(name) # ""

\* RegexMatcher.LanguageID
MatcherLanguageID(name) ==
    IF defaultMatcher(name) = "" THEN [err |-> TRUE, id |-> NoLanguage]
    ELSE ParseLanguage(defaultMatcher(name))

\* LanguageID.String
String(l) == IF l.Region # "" THEN l.Language \o "-" \o l.Region ELSE l.Language

\* The names of the model in the order afero.ReadDir lists them.
dirNames == <<"en.yaml", "he.yaml", "iw.yaml", "nl.yaml", "readme.md", "sub", "xx.yaml">>

ReadDir(fsys) == SelectSeq(dirNames, LAMBDA n : n \in DOMAIN fsys)

\* The loop over the directory entries: files by language, or the error of
\* a name without language or of a second file for a language.
RECURSIVE collectFiles(_, _, _)
collectFiles(fsys, entries, files) ==
    IF entries = <<>> THEN [err |-> FALSE, files |-> files]
    ELSE LET name == Head(entries)
         IN  IF fsys[name].IsDir \/ ~IsMatch(name)
             THEN collectFiles(fsys, Tail(entries), files)
             ELSE IF MatcherLanguageID(name).err \/ MatcherLanguageID(name).id \in DOMAIN files
             THEN [err |-> TRUE, files |-> <<>>]
             ELSE collectFiles(fsys, Tail(entries),
                               (MatcherLanguageID(name).id :> name) @@ files)

\* The templates of the files: "e:a", ":a|plural(=02 {e} other {f})", the
\* lex error ":a|x" and the parse error ":a|plural(=1 {a})".
tLiteral == <<"e", ":", "a">>

tPlural ==
    <<":", "a", "|">> \o strPlural \o <<"(", "=", "0", "2", " ", "{", "e", "}", " ">>
        \o strOther \o <<" ", "{", "f", "}", ")">>

tLexError == <<":", "a", "|", "x">>

tParseError == <<":", "a", "|">> \o strPlural \o <<"(", "=", "1", " ", "{", "a", "}", ")">>

\* for key, raw := range rawMessages: the pairs (key, raw) of the decoded
\* map, each with what parser.Parse returns for raw.
parseMessages(rawMessages) ==
    {<<kv[1], Parse(kv[2])>> : kv \in {<<k, rawMessages[k]>> : k \in DOMAIN rawMessages}}

\* addFile leaving out the messages that do not parse.
addFile_SkipsBadMessages(content) ==
    IF ~content.ok THEN [err |-> TRUE, messages |-> <<>>]
    ELSE [err |-> FALSE,
          messages |-> [k \in {p[1] : p \in {q \in parseMessages(content.raw) : ~q[2].err}} |->
                            (CHOOSE p \in parseMessages(content.raw) : p[1] = k)[2].msg]]

\* Container.addFile: the decoded messages parsed one by one.
addFile(content) ==
    IF ~content.ok THEN [err |-> TRUE, messages |-> <<>>]
    ELSE IF \E p \in parseMessages(content.raw) : p[2].err
    THEN [err |-> TRUE, messages |-> <<>>]
    ELSE [err |-> FALSE,
          messages |-> [k \in DOMAIN content.raw |->
                            (CHOOSE p \in parseMessages(content.raw) : p[1] = k)[2].msg]]

\* ContainerFromFs: [err, nil, messages], nil for the nil *Container.
ContainerFromFs(fsys) ==
    LET fl == collectFiles(fsys, ReadDir(fsys), <<>>)
    IN  IF fl.err \/ \E l \in DOMAIN fl.files : addFile(fsys[fl.files[l]]).err
        THEN [err |-> TRUE, nil |-> TRUE, messages |-> <<>>]
        ELSE [err |-> FALSE, nil |-> FALSE,
              messages |-> [l \in DOMAIN fl.files |-> addFile(fsys[fl.files[l]]).messages]]

\* Container.Raw
ContainerRaw(msgs) == [l \in DOMAIN msgs |-> [k \in DOMAIN msgs[l] |-> Raw(msgs[l][k])]]

(***************************************************************************)
(* matcher.go (cmd/lingua): the extract command on a translation           *)
(* directory, with the keys found in the source and the --remove flag.     *)
(***************************************************************************)
Range(seq) == {seq[i] : i \in DOMAIN seq}

\* The loop body of extractCmd for one language: the keys of the source it
\* lacks are added as "", then with remove the keys not in the source are
\* deleted.
extractLanguage(msgs, srcMessages, remove) ==
    LET added == [k \in DOMAIN msgs \cup Range(srcMessages) |->
                     IF k \in DOMAIN msgs THEN msgs[k] ELSE <<>>]
    IN  IF remove
        THEN [k \in {k \in DOMAIN added : k \in Range(srcMessages)} |-> added[k]]
        ELSE added

\* extractCmd.RunE after ContainerFromFs and Raw: the directory once every
\* language of the container is written to <language>.yaml, created or
\* truncated.
extractWrite(fsys, existingMessages, srcMessages, remove) ==
    LET written == {String(l) \o ".yaml" : l \in DOMAIN existingMessages}
        langOf(n) == CHOOSE l \in DOMAIN existingMessages : String(l) \o ".yaml" = n
    IN  [n \in DOMAIN fsys \cup written |->
            IF n \in written
            THEN [IsDir |-> FALSE, ok |-> TRUE,
                  raw |-> extractLanguage(existingMessages[langOf(n)], srcMessages, remove)]
            ELSE fsys[n]]

\* A file that decodes to the map raw, one that does not decode, a
\* directory, and no entry at all.
yamlFile(raw) == [exists |-> TRUE, IsDir |-> FALSE, ok |-> TRUE, raw |-> raw]

badFile == [exists |-> TRUE, IsDir |-> FALSE, ok |-> FALSE, raw |-> <<>>]

subDir == [exists |-> TRUE, IsDir |-> TRUE, ok |-> FALSE, raw |-> <<>>]

noEntry == [exists |-> FALSE, IsDir |-> FALSE, ok |-> FALSE, raw |-> <<>>]

goodFile == yamlFile(<<"a">> :> tLiteral)

EnFiles ==
    { noEntry, badFile, yamlFile(<<>>), goodFile,
      yamlFile((<<"a">> :> tLiteral) @@ (<<"b">> :> tPlural)),
      yamlFile((<<"a">> :> tLiteral) @@ (<<"b">> :> tLexError)),
      yamlFile((<<"a">> :> tLiteral) @@ (<<"b">> :> tParseError)) }

\* The directory with the entries that exist.
mkDir(entries) ==
    [n \in {n \in DOMAIN entries : entries[n].exists} |->
        [IsDir |-> entries[n].IsDir, ok |-> entries[n].ok, raw |-> entries[n].raw]]

\* A readme and a subdirectory come together.
Directories ==
    { mkDir(("en.yaml" :> en) @@ ("nl.yaml" :> nl) @@ ("he.yaml" :> he)
            @@ ("iw.yaml" :> iw) @@ ("xx.yaml" :> xx) @@ ("readme.md" :> md)
            @@ ("sub" :> IF md.exists THEN subDir ELSE noEntry)) :
        en \in EnFiles, nl \in {noEntry, yamlFile(<<>>)},
        he \in {noEntry, goodFile}, iw \in {noEntry, goodFile}, xx \in {noEntry, goodFile},
        md \in {noEntry, badFile} }

\* The keys extract.KeysFromSource finds.
SrcMessages == { <<>>, << <<"c">> >>, << <<"a">>, <<"c">> >> }

InitFs ==
    /\ input = <<>>
    /\ state = "nil"
    /\ start = 0
    /\ pos = 0
    /\ width = 0
    /\ tokens = <<>>
    /\ phase = "fs"
    /\ msg = Message(<<>>)
    /\ replacements = <<>>
    /\ out = <<>>
    /\ calls = <<>>
    /\ c_messages = <<>>
    /\ defaultLanguage = NoLanguage
    /\ from_messages = <<>>
    /\ ctx = <<>>
    /\ call = [op |-> "none", raw |-> "-"]
    /\ fs \in Directories
    /\ index = -1

\* c, err := ContainerFromFs(fs); c_messages holds the messages of c.
CallContainerFromFs ==
    /\ phase = "fs"
    /\ \E r \in {ContainerFromFs(fs)} :
          /\ call' = [op |-> "ContainerFromFs", raw |-> call.raw,
                      err |-> r.err, nil |-> r.nil]
          /\ c_messages' = r.messages
    /\ UNCHANGED <<lexerVars, phase, msg, replacements, out, calls,
                   defaultLanguage, from_messages, ctx, fs, index>>

\* lingua extract SRC_DIR TRANSLATIONS_DIR [--remove]; the call keeps the
\* directory as it was.
CallExtract ==
    /\ phase = "fs"
    /\ \E srcMessages \in SrcMessages, remove \in BOOLEAN :
          \E existing \in {ContainerFromFs(fs)} :
              /\ call' = [op |-> "extract", raw |-> call.raw, err |-> existing.err,
                          srcMessages |-> srcMessages, remove |-> remove, before |-> fs]
              /\ IF existing.err THEN fs' = fs
                 ELSE \E existingMessages \in {ContainerRaw(existing.messages)} :
                          fs' = extractWrite(fs, existingMessages, srcMessages, remove)
    /\ UNCHANGED <<lexerVars, phase, msg, replacements, out, calls,
                   c_messages, defaultLanguage, from_messages, ctx, index>>

NextFs ==
    \/ CallContainerFromFs
    \/ CallExtract

SpecFs == InitFs /\ [][NextFs]_vars

(***************************************************************************)
(* iterator.go: an iterator over a slice of tokens and the calls Peek,     *)
(* Next, HasNext, Current and Reset on it, in any order.  tokens holds the *)
(* items and index the position.  call tells the last call: what it        *)
(* returned (ok, tok), the position before it, the answers of the Peek and *)
(* HasNext calls made since the position last changed, the tokens the      *)
(* Next calls have returned since the iterator was made or reset, and      *)
(* whether it was reset.                                                   *)
(***************************************************************************)
MaxItems == 3

\* var zeroValue T
zeroValue == [TokenType |-> "zero", Data |-> <<>>, At |-> 0]

ItemTokens == { Token("literal", <<"e">>, 0), Token("replacement", <<"a">>, 1) }

Items == SeqsUpTo(ItemTokens, MaxItems)

IT == [items |-> tokens, index |-> index]

noAnswer == [set |-> FALSE, ok |-> FALSE, tok |-> zeroValue]

\* The answers still pending: none once the position has changed.
pendingPeek == IF call.op \in {"Next", "Reset"} THEN noAnswer ELSE call.peek

pendingHas == IF call.op \in {"Next", "Reset"} THEN noAnswer ELSE call.has

InitIterator ==
    /\ input = <<>>
    /\ state = "nil"
    /\ start = 0
    /\ pos = 0
    /\ width = 0
    /\ tokens \in Items
    /\ phase = "iterate"
    /\ msg = Message(<<>>)
    /\ replacements = <<>>
    /\ out = <<>>
    /\ calls = <<>>
    /\ c_messages = <<>>
    /\ defaultLanguage = NoLanguage
    /\ from_messages = <<>>
    /\ ctx = <<>>
    /\ call = [op |-> "newIterator", ok |-> TRUE, tok |-> zeroValue, before |-> -1,
               peek |-> noAnswer, has |-> noAnswer, seen |-> <<>>, reset |-> FALSE]
    /\ fs = <<>>
    /\ index = newIterator(tokens).index

iteratorFrame == <<lexerVars, phase, msg, replacements, out, calls,
                   c_messages, defaultLanguage, from_messages, ctx, fs>>

CallPeek ==
    /\ phase = "iterate"
    /\ call' = [op |-> "Peek", ok |-> PeekOk(IT),
                tok |-> IF PeekOk(IT) THEN PeekTok(IT) ELSE zeroValue,
                before |-> index,
                peek |-> [set |-> TRUE, ok |-> PeekOk(IT),
                          tok |-> IF PeekOk(IT) THEN PeekTok(IT) ELSE zeroValue],
                has |-> pendingHas, seen |-> call.seen, reset |-> call.reset]
    /\ UNCHANGED <<iteratorFrame, index>>

CallNext ==
    /\ phase = "iterate"
    /\ index' = NextIt(IT).index
    /\ call' = [op |-> "Next", ok |-> NextOk(IT),
                tok |-> IF NextOk(IT) THEN NextTok(IT) ELSE zeroValue,
                before |-> index, peek |-> pendingPeek, has |-> pendingHas,
                seen |-> IF NextOk(IT) THEN Append(call.seen, NextTok(IT)) ELSE call.seen,
                reset |-> call.reset]
    /\ UNCHANGED iteratorFrame

CallHasNext ==
    /\ phase = "iterate"
    /\ call' = [op |-> "HasNext", ok |-> HasNext(IT), tok |-> zeroValue, before |-> index,
                peek |-> pendingPeek,
                has |-> [set |-> TRUE, ok |-> HasNext(IT), tok |-> zeroValue],
                seen |-> call.seen, reset |-> call.reset]
    /\ UNCHANGED <<iteratorFrame, index>>

CallCurrent ==
    /\ phase = "iterate"
    /\ call' = [op |-> "Current", ok |-> CurrentOk(IT),
                tok |-> IF CurrentOk(IT) THEN CurrentTok(IT) ELSE zeroValue,
                before |-> index, peek |-> pendingPeek, has |-> pendingHas,
                seen |-> call.seen, reset |-> call.reset]
    /\ UNCHANGED <<iteratorFrame, index>>

CallReset ==
    /\ phase = "iterate"
    /\ index' = Reset(IT).index
    /\ call' = [op |-> "Reset", ok |-> TRUE, tok |-> zeroValue, before |-> index,
                peek |-> pendingPeek, has |-> pendingHas, seen |-> <<>>, reset |-> TRUE]
    /\ UNCHANGED iteratorFrame

NextIterator ==
    \/ CallPeek
    \/ CallNext
    \/ CallHasNext
    \/ CallCurrent
    \/ CallReset

SpecIterator == InitIterator /\ [][NextIterator]_vars

(***************************************************************************)
(* Properties.                                                             *)
(***************************************************************************)
\* Parse has returned a Message.
Parsed == phase \in {"parsed", "raw", "rendered"}

NoColon == \A i \in 1..Len(input) : input[i] # ":"

\* C1 as stated: for every template without a ':' Parse succeeds and the
\* Message has exactly one operation, a Literal whose value is the input.
C1_OneLiteralForAnyInput ==
    (phase # "lex" /\ NoColon)
        => (Parsed /\ msg.Ops = <<[op |-> "LiteralOp", Value |-> input]>>)

\* C1 amended: for every template without a ':' Parse succeeds; a non-empty
\* template gives exactly one operation, a Literal whose value is the input,
\* and the empty template gives a Message with no operation.
C1_OneLiteralUnlessEmpty ==
    (phase # "lex" /\ NoColon)
        => /\ Parsed
           /\ msg.Ops = IF input = <<>> THEN <<>>
                        ELSE <<[op |-> "LiteralOp", Value |-> input]>>

C1_Witness ==
    /\ phase = "parsed"
    /\ NoColon
    /\ Len(input) >= 2
    /\ \E i \in 1..Len(input) : input[i] = "\\"
    /\ msg.Ops = <<[op |-> "LiteralOp", Value |-> input]>>

\* C2: in every lexer run, no replacement-key token is emitted for text that
\* follows a colon immediately preceded by a backslash.
C2_EscapedColonStartsNoPlaceholder ==
    \A i \in 1..Len(tokens) :
        (tokens[i].TokenType = "replacement" /\ tokens[i].At >= 2)
            => input[tokens[i].At - 1] # "\\"

\* An escaped colon followed by a lowercase letter, after a placeholder that
\* was lexed as one.
C2_Witness ==
    /\ phase = "parsed"
    /\ \E i \in 1..Len(input) - 2 :
          input[i] = "\\" /\ input[i + 1] = ":" /\ input[i + 2] \in lowercase
    /\ \E i \in 1..Len(tokens) : tokens[i].TokenType = "replacement"

\* C3: the Literal produced for text with the escape sequence \: holds the
\* colon without the backslash, so no Literal of a parsed Message has a
\* backslash directly before a colon.
C3_BackslashDropped ==
    Parsed =>
        \A k \in 1..Len(msg.Ops) :
            msg.Ops[k].op = "LiteralOp" =>
                \A i \in 1..Len(msg.Ops[k].Value) - 1 :
                    ~(msg.Ops[k].Value[i] = "\\" /\ msg.Ops[k].Value[i + 1] = ":")

IsPluralToken(tok) == tok.TokenType = "transformer" /\ tok.Data = strPlural

\* The plural whose name is token i has an `other` case with a body that is
\* not empty.
HasOtherBody(i) ==
    \E j \in (i + 1)..(Len(tokens) - 2) :
        /\ tokens[j].TokenType = "pluralOther"
        /\ tokens[j + 1].TokenType = "pluralTranslationStart"
        /\ tokens[j + 2].TokenType \in {"literal", "pluralCount"}
        /\ \A k \in (i + 1)..j : tokens[k].TokenType \notin {"transformer", "replacement"}

\* C4: Parse succeeds only if every plural transformer of the template has
\* an `other` case with a non-empty body.
C4_PluralNeedsOther ==
    Parsed => \A i \in 1..Len(tokens) : IsPluralToken(tokens[i]) => HasOtherBody(i)

\* A template that lexes, has a plural whose only `other` body is empty, and
\* is refused by Parse.
C4_Witness ==
    /\ phase = "failed"
    /\ ~lexFailed(tokens)
    /\ \E i \in 1..Len(tokens) :
          /\ IsPluralToken(tokens[i])
          /\ ~HasOtherBody(i)
          /\ \E j \in (i + 1)..Len(tokens) : tokens[j].TokenType = "pluralOther"

\* C5: round trip: parsing the serialisation of a parsed Message succeeds
\* and gives the same operation tree.
C5_RoundTrip ==
    phase = "raw" => Parse(out) = [err |-> FALSE, msg |-> msg]

HasPlural(m) ==
    \E k \in 1..Len(m.Ops) :
        /\ m.Ops[k].op = "ReplacementOp"
        /\ \E j \in 1..Len(m.Ops[k].Transformers) :
              m.Ops[k].Transformers[j].t = "PluralTransformer"

\* A serialisation that differs from the template it came from, with a range
\* case, and parses back to the same tree.
C5_Witness ==
    /\ phase = "raw"
    /\ out # input
    /\ \E k \in 1..Len(msg.Ops) :
          /\ msg.Ops[k].op = "ReplacementOp"
          /\ \E j \in 1..Len(msg.Ops[k].Transformers) :
                /\ msg.Ops[k].Transformers[j].t = "PluralTransformer"
                /\ \E c \in 1..Len(msg.Ops[k].Transformers[j].Cases) :
                      msg.Ops[k].Transformers[j].Cases[c].Type = "OpPluralCaseTypeRange"
    /\ Parse(out).msg = msg

\* C6: for every template that parses and has no plural transformer, the
\* serialisation of the Message is the template, character for character.
C6_RawIsSource ==
    (phase = "raw" /\ ~HasPlural(msg)) => out = input

C6_Witness ==
    /\ phase = "raw"
    /\ ~HasPlural(msg)
    /\ out = input
    /\ \E k \in 1..Len(msg.Ops) :
          msg.Ops[k].op = "ReplacementOp" /\ Len(msg.Ops[k].Transformers) >= 1
    /\ \E k \in 1..Len(msg.Ops) : msg.Ops[k].op = "LiteralOp"

\* A rendered Message that is one placeholder with one transformer, a
\* plural, and a value given for its key.
SinglePlural ==
    /\ phase = "rendered"
    /\ Len(msg.Ops) = 1
    /\ msg.Ops[1].op = "ReplacementOp"
    /\ Len(msg.Ops[1].Transformers) = 1
    /\ msg.Ops[1].Transformers[1].t = "PluralTransformer"
    /\ msg.Ops[1].Key \in DOMAIN replacements

ThePlural == msg.Ops[1].Transformers[1]

TheCount == pluralCountOf(replacements[msg.Ops[1].Key])

\* The count satisfies case c, as the claims state it.
Satisfies(c, n) ==
    \/ c.Type = "OpPluralCaseTypeExact" /\ n = c.A
    \/ c.Type = "OpPluralCaseTypeRange" /\ c.A <= n /\ n <= c.B

SatisfiedCases(t, n) == {i \in 1..Len(t.Cases) : Satisfies(t.Cases[i], n)}

FirstSatisfied(t, n) ==
    CHOOSE i \in SatisfiedCases(t, n) : \A j \in SatisfiedCases(t, n) : i <= j

\* C7: an Exact case matches iff count = value, a Range case iff
\* low <= count <= high, and when the count satisfies declared cases what is
\* rendered is the body of the first of them (or `other`), never the body of
\* a case declared after it.
C7_FirstMatchInDeclaredOrder ==
    SinglePlural =>
        /\ \A i \in 1..Len(ThePlural.Cases) :
              Match(ThePlural.Cases[i], TheCount) <=> Satisfies(ThePlural.Cases[i], TheCount)
        /\ SatisfiedCases(ThePlural, TheCount) # {}
              => LET first == ThePlural.Cases[FirstSatisfied(ThePlural, TheCount)]
                 IN  /\ out \in {writeOps(first.Ops, TheCount), writeOps(ThePlural.Other, TheCount)}
                     /\ first.Ops # <<>> => out = writeOps(first.Ops, TheCount)

\* The count satisfies two cases with different bodies, and the first one's
\* body is the output.
C7_Witness ==
    /\ SinglePlural
    /\ Cardinality(SatisfiedCases(ThePlural, TheCount)) >= 2
    /\ out = writeOps(ThePlural.Cases[FirstSatisfied(ThePlural, TheCount)].Ops, TheCount)
    /\ \E j \in SatisfiedCases(ThePlural, TheCount) :
          out # writeOps(ThePlural.Cases[j].Ops, TheCount)

\* C8: the `other` body is the one rendered if and only if no declared
\* exact/range case matches the count.
C8_OtherIffNoCaseMatches ==
    SinglePlural =>
        ((out = writeOps(ThePlural.Other, TheCount))
            <=> (SatisfiedCases(ThePlural, TheCount) = {}))

decimal == <<"0", "1", "2", "3", "4", "5", "6", "7", "8", "9">>

\* The first k operations of a body: each literal verbatim, dec for each
\* count marker.
RECURSIVE BodyText(_, _, _)
BodyText(ops, k, dec) ==
    IF k = 0 THEN <<>>
    ELSE BodyText(ops, k - 1, dec)
         \o (IF ops[k].op = "PluralCountOp" THEN dec ELSE ops[k].Value)

CountMarkers(ops) == {k \in 1..Len(ops) : ops[k].op = "PluralCountOp"}

\* C9: the selected body is rendered as the concatenation of its operations
\* in order, each literal verbatim and the decimal string of the count for
\* every count marker.
C9_BodyRendering ==
    (SinglePlural /\ TheCount \in 0..9) =>
        LET body == selectOps(ThePlural, TheCount)
        IN  out = BodyText(body, Len(body), <<decimal[TheCount + 1]>>)

\* A selected body with two count markers, both written as the count.
C9_Witness ==
    /\ SinglePlural
    /\ TheCount \in 1..9
    /\ Cardinality(CountMarkers(selectOps(ThePlural, TheCount))) >= 2
    /\ out = <<"3", "c", "3">>

MissingKey(o) == o.op = "ReplacementOp" /\ o.Key \notin DOMAIN replacements

\* The output for the first k operations: ':' and the key for a placeholder
\* whose key is absent, the operation's own rendering otherwise.
RECURSIVE OutputUpTo(_)
OutputUpTo(k) ==
    IF k = 0 THEN <<>>
    ELSE OutputUpTo(k - 1)
         \o (IF MissingKey(msg.Ops[k]) THEN <<":">> \o msg.Ops[k].Key
             ELSE format(Message(<<msg.Ops[k]>>), replacements, Scope))

\* C10: a placeholder whose key is absent from the replacement map is
\* rendered as ':' followed by the key, without its transformers, and every
\* other operation is rendered as usual.
C10_MissingKeyKeepsPlaceholder ==
    phase = "rendered" => out = OutputUpTo(Len(msg.Ops))

\* A placeholder with a transformer and no value, next to a placeholder with
\* a value.
C10_Witness ==
    /\ phase = "rendered"
    /\ \E k \in 1..Len(msg.Ops) :
          MissingKey(msg.Ops[k]) /\ Len(msg.Ops[k].Transformers) >= 1
    /\ \E k \in 1..Len(msg.Ops) :
          msg.Ops[k].op = "ReplacementOp" /\ ~MissingKey(msg.Ops[k])

\* A rendered message that is one placeholder whose key has a value.
SinglePlaceholder ==
    /\ phase = "rendered"
    /\ Len(msg.Ops) = 1
    /\ msg.Ops[1].op = "ReplacementOp"
    /\ msg.Ops[1].Key \in DOMAIN replacements

TheValue == replacements[msg.Ops[1].Key]

TheTransformers == msg.Ops[1].Transformers

\* The kinds of the placeholder's transformers, in written order.
Kinds == [k \in 1..Len(TheTransformers) |-> TheTransformers[k].t]

\* The value after the first k transformers as written, each one applied to
\* the result of the one before it.
RECURSIVE ValueAfter(_)
ValueAfter(k) ==
    IF k = 0 THEN TheValue
    ELSE applyTransformer(TheTransformers[k], ValueAfter(k - 1), Scope)

\* C11: the transformers of a placeholder are applied in the order written,
\* each to the result of the previous one: capitalize|replace looks up the
\* capitalized value, replace|capitalize capitalizes the text looked up.
C11_TransformersInWrittenOrder ==
    SinglePlaceholder =>
        /\ out = ValueAfter(Len(TheTransformers))
        /\ Kinds = <<"CapitalizeTransformer", "ReplaceTransformer">>
               => out = replace(capitalize(TheValue), Scope)
        /\ Kinds = <<"ReplaceTransformer", "CapitalizeTransformer">>
               => out = capitalize(replace(TheValue, Scope))

\* ":b|capitalize|replace" with b = "b": the sibling "B" is found, where the
\* other order would have found the sibling "b".
C11_Witness ==
    /\ SinglePlaceholder
    /\ Kinds = <<"CapitalizeTransformer", "ReplaceTransformer">>
    /\ TheValue = <<"b">>
    /\ out = <<"E">>
    /\ capitalize(replace(TheValue, Scope)) # out

\* The text of the Literal operations of a message, in order.
RECURSIVE LiteralText(_)
LiteralText(ops) ==
    IF ops = <<>> THEN <<>>
    ELSE (IF Head(ops).op = "LiteralOp" THEN Head(ops).Value ELSE <<>>)
         \o LiteralText(Tail(ops))

\* C12: when replace finds the value as a key of the sibling table, the
\* value becomes the literal text of that sibling only: its placeholders and
\* transformers are not copied into the output.
C12_ReplaceGivesLiteralTextOnly ==
    (/\ SinglePlaceholder
     /\ Kinds = <<"ReplaceTransformer">>
     /\ TheValue \in DOMAIN Scope)
        => out = LiteralText(Scope[TheValue].Ops)

\* A value that is not a base-10 integer: empty, or with a non-digit.
NotAnInteger(v) == v = <<>> \/ \E i \in 1..Len(v) : v[i] \notin digits

\* The body the claims select for count n: the first case n satisfies, or
\* `other` when n satisfies none.
BodyFor(t, n) ==
    IF SatisfiedCases(t, n) = {} THEN t.Other
    ELSE t.Cases[FirstSatisfied(t, n)].Ops

\* C13: a value that is not a base-10 integer counts as 0: the case for 0
\* (or `other` if no case matches 0) is rendered and its count markers
\* print 0.
C13_NonIntegerCountsAsZero ==
    (SinglePlural /\ NotAnInteger(replacements[msg.Ops[1].Key])) =>
        LET body == BodyFor(ThePlural, 0)
        IN  out = BodyText(body, Len(body), <<"0">>)

\* C14: capitalize keeps the number of scalars of every value, the empty
\* one included; the first scalar becomes its uppercase and the later ones
\* are unchanged.
C14_CapitalizeFirstScalarOnly ==
    (SinglePlaceholder /\ Kinds = <<"CapitalizeTransformer">>) =>
        /\ Len(out) = Len(TheValue)
        /\ TheValue # <<>> =>
              (out[1] = ToUpper(TheValue[1]) /\ Tail(out) = Tail(TheValue))

uppercase == {upperOf[r] : r \in lowercase}

\* C15: on a value that is empty or starts with an uppercase scalar,
\* capitalizing the capitalized value gives the capitalized value again.
C15_CapitalizeIdempotent ==
    (/\ SinglePlaceholder
     /\ Kinds = <<"CapitalizeTransformer">>
     /\ (TheValue = <<>> \/ TheValue[1] \in uppercase))
        => capitalize(out) = out

\* The empty value, capitalized once.
C15_Witness ==
    /\ SinglePlaceholder
    /\ Kinds = <<"CapitalizeTransformer">>
    /\ TheValue = <<>>
    /\ out = <<RuneError>>

\* The first k operations of the message rendered by one call alone.
RenderedAlone(k, repl) == format(Message(SubSeq(msg.Ops, 1, k)), repl, Scope)

\* C16: rendering does not write to the Message, the replacement map or the
\* sibling table, so under every interleaving of concurrent calls on the
\* same Message each call builds and returns what it returns alone.
C16_ConcurrentRendersIndependent ==
    phase = "render" =>
        /\ msg = Parse(input).msg
        /\ \A c \in Callers :
              /\ calls[c].pc = "loop"
                    => calls[c].b = RenderedAlone(calls[c].i - 1, calls[c].replacements)
              /\ calls[c].pc = "done"
                    => calls[c].ret = format(msg, calls[c].replacements, Scope)

\* One call has returned while another, with another replacement map, is in
\* the middle of the message with other text in its builder.
C16_Witness ==
    /\ phase = "render"
    /\ \E c, d \in Callers :
          /\ calls[c].pc = "done"
          /\ calls[d].pc = "loop"
          /\ calls[d].i > 1
          /\ calls[d].i <= Len(msg.Ops)
          /\ calls[c].replacements # calls[d].replacements
          /\ calls[d].b # <<>>
          /\ calls[d].b # SubSeq(calls[c].ret, 1, Len(calls[d].b))

\* The language of the request: that of the context, the default language
\* when the context has none.
Requested == IF Empty(fromCtx(ctx)) THEN defaultLanguage ELSE fromCtx(ctx)

\* The language the call resolved has no message for the key.
NoMessageFor(l, key) == l \notin DOMAIN c_messages \/ key \notin DOMAIN c_messages[l]

\* C17: Container.Message returns the key itself when no language can be
\* resolved (no language in the context, also after WithLanguage with an
\* unparseable string, and no default language) or when the resolved
\* language has no message for the key.
C17_MessageFallsBackToKey ==
    call.op = "Message" =>
        /\ (languageKey \notin DOMAIN ctx /\ Empty(defaultLanguage)) => call.ret = call.key
        /\ (Empty(call.lang) \/ NoMessageFor(call.lang, call.key)) => call.ret = call.key

\* After WithLanguage("invalid") on a container without default language
\* that has the key in every loaded language, the key comes back.
C17_Witness ==
    /\ call.op = "Message"
    /\ call.raw = "invalid"
    /\ ctx = <<>>
    /\ Empty(defaultLanguage)
    /\ DOMAIN c_messages = LoadedLanguages
    /\ \A l \in LoadedLanguages : call.key \in DOMAIN c_messages[l]
    /\ call.ret = call.key

\* C18: when a loaded language equals the requested one in language and
\* region ScopedLanguage returns it, whatever else is loaded; otherwise,
\* when a loaded language has the same base language, it returns a loaded
\* language with that base rather than the default.
C18_ExactThenBaseLanguage ==
    (call.op \in {"ScopedLanguage", "Message"} /\ ~Empty(Requested)) =>
        /\ Requested \in DOMAIN c_messages => call.lang = Requested
        /\ (/\ Requested \notin DOMAIN c_messages
            /\ \E s \in DOMAIN c_messages : s.Language = Requested.Language)
              => (call.lang \in DOMAIN c_messages
                    /\ call.lang.Language = Requested.Language)

\* en-US requested with en, en-US and nl loaded and nl the default: en-US
\* is returned.
C18_Witness ==
    /\ call.op = "ScopedLanguage"
    /\ fromCtx(ctx) = LanguageID("en", "US")
    /\ DOMAIN c_messages = LoadedLanguages
    /\ defaultLanguage = LanguageID("nl", "")
    /\ call.lang = LanguageID("en", "US")

\* The keys a message table has for a language, none when it lacks it.
KeysOf(table, l) == IF l \in DOMAIN table THEN DOMAIN table[l] ELSE {}

\* C19: after Merge a key both containers had under the same language maps
\* to the message `to` had under Skip and SkipAndClean and to the message of
\* `from` under Overwrite and OverWriteAndClean; under every strategy a key
\* only `from` had is in the result with the message of `from`.
C19_MergeConflictPolicy ==
    call.op = "Merge" =>
        \A l \in DOMAIN call.from : \A k \in DOMAIN call.from[l] :
            /\ k \in KeysOf(c_messages, l)
            /\ c_messages[l][k] =
                 IF k \in KeysOf(call.to, l) /\ call.strategy \in {Skip, SkipAndClean}
                 THEN call.to[l][k]
                 ELSE call.from[l][k]

\* A Skip merge that kept the message of `to` for a key both had and added
\* a key only `from` had.
C19_Witness ==
    /\ call.op = "Merge"
    /\ call.strategy = Skip
    /\ \E l \in DOMAIN call.from :
          /\ \E k \in DOMAIN call.from[l] :
                /\ k \in KeysOf(call.to, l)
                /\ call.to[l][k] # call.from[l][k]
                /\ c_messages[l][k] = call.to[l][k]
          /\ \E k \in DOMAIN call.from[l] :
                /\ k \notin KeysOf(call.to, l)
                /\ c_messages[l][k] = call.from[l][k]

\* C20: after a merge with SkipAndClean or OverWriteAndClean the result
\* has, for every language, exactly the keys `from` has for it (none for a
\* language `from` lacks); after Skip or Overwrite every key of `to` is
\* still there.
C20_MergeCleaning ==
    call.op = "Merge" =>
        IF call.strategy \in {SkipAndClean, OverWriteAndClean}
        THEN \A l \in DOMAIN c_messages \cup DOMAIN call.from \cup DOMAIN call.to :
                KeysOf(c_messages, l) = KeysOf(call.from, l)
        ELSE \A l \in DOMAIN call.to : KeysOf(call.to, l) \subseteq KeysOf(c_messages, l)

\* A cleaning merge that removed the keys of a language `from` lacks and a
\* key `from` lacks in a language both have.
C20_Witness ==
    /\ call.op = "Merge"
    /\ call.strategy = SkipAndClean
    /\ \E l \in DOMAIN call.to :
          /\ l \notin DOMAIN call.from
          /\ call.to[l] # <<>>
          /\ c_messages[l] = <<>>
    /\ \E l \in DOMAIN call.to \cap DOMAIN call.from :
          /\ \E k \in DOMAIN call.to[l] : k \notin DOMAIN call.from[l]
          /\ call.from[l] # <<>>
          /\ DOMAIN c_messages[l] = DOMAIN call.from[l]

\* The files of a directory the default matcher takes.
Matched(dir) == {n \in DOMAIN dir : ~dir[n].IsDir /\ IsMatch(n)}

\* A matched file that keeps the container from being built: a name without
\* language, the language of another matched file, content that does not
\* decode, or a message that does not lex or parse.
Faulty(dir, n) ==
    \/ MatcherLanguageID(n).err
    \/ \E m \in Matched(dir) \ {n} : MatcherLanguageID(m) = MatcherLanguageID(n)
    \/ ~dir[n].ok
    \/ \E k \in DOMAIN dir[n].raw : Parse(dir[n].raw[k]).err

\* C21: ContainerFromFs returns an error and no container when a matched
\* file is faulty, and an empty container without error when no file
\* matches.
C21_ContainerFromFsErrors ==
    call.op = "ContainerFromFs" =>
        /\ (\E n \in Matched(fs) : Faulty(fs, n)) => (call.err /\ call.nil)
        /\ Matched(fs) = {} => (~call.err /\ ~call.nil /\ c_messages = <<>>)

\* The only fault of the directory is one message of en.yaml that does not
\* parse, next to files that load.
C21_Witness ==
    /\ call.op = "ContainerFromFs"
    /\ call.err
    /\ call.nil
    /\ \A n \in Matched(fs) : Faulty(fs, n) <=> n = "en.yaml"
    /\ Cardinality(Matched(fs)) >= 2
    /\ fs["en.yaml"].ok
    /\ \E k \in DOMAIN fs["en.yaml"].raw : ~Parse(fs["en.yaml"].raw[k]).err

\* C22: extract without --remove keeps every key of every translation file
\* with its translation and adds the keys of the source the file lacks with
\* an empty translation; with --remove exactly the keys not in the source
\* are deleted; only the language files that exist are written.
C22_ExtractOnlyAddsKeys ==
    (call.op = "extract" /\ ~call.err) =>
        /\ DOMAIN fs = DOMAIN call.before
        /\ \A n \in DOMAIN call.before \ Matched(call.before) : fs[n] = call.before[n]
        /\ \A n \in Matched(call.before) :
              LET old == call.before[n].raw
                  new == fs[n].raw
                  src == Range(call.srcMessages)
              IN  /\ DOMAIN new = IF call.remove THEN src ELSE DOMAIN old \cup src
                  /\ \A k \in DOMAIN new :
                        new[k] = IF k \in DOMAIN old THEN old[k] ELSE <<>>

\* The positions of the error tokens the lexer has emitted.
ErrorTokens == {i \in 1..Len(tokens) : tokens[i].TokenType = "errTok"}

C24_UnexpectedArgIsError ==
    (phase = "lex" /\ state = "lexerPluralArgs") =>
        LET s == ignore(acceptRun(L, spaces))
        IN  peekR(s) \notin {")", "=", "o", eof} =>
                /\ lexerPluralArgs(L).state = "nil"
                /\ lexFailed(lexerPluralArgs(L).tokens)

\* The state functions inside a plural argument list.
PluralStates == {"lexerPluralArgs", "lexerPluralNumericArg", "lexerPluralTranslation"}

\* The template holds the placeholder ":a|plural(" and no ')' after it.
OpenPlural(in) ==
    \E i \in 1..Len(in) :
        /\ i + 9 <= Len(in)
        /\ SubSeq(in, i, i + 9) = <<":", "a", "|">> \o strPlural \o <<"(">>
        /\ i > 1 => in[i - 1] \notin {"\\", ":"} \cup lowercase
        /\ \A j \in (i + 10)..Len(in) : in[j] # ")"

\* C25: a template that ends inside an open plural( argument list does not
\* lex: a state function of the list ends the run only with an error token,
\* and the run on a template without the closing ')' ends with one.
C25_OpenPluralIsError ==
    /\ (phase = "lex" /\ state \in PluralStates /\ stateFn(L).state = "nil") =>
            lexFailed(stateFn(L).tokens)
    /\ (state = "nil" /\ OpenPlural(input)) => (ErrorTokens # {} /\ runLexer(input).err)

\* The input ended inside the body of the second case.
C25_Witness ==
    /\ state = "nil"
    /\ OpenPlural(input)
    /\ ErrorTokens # {}
    /\ Len(tokens) >= 8
    /\ tokens[Len(tokens) - 1].TokenType \in {"pluralTranslationStart", "literal", "pluralCount"}

\* The lowercase letters of in from offset from on, up to the first
\* character that is none.
RECURSIVE lowerRun(_, _)
lowerRun(in, from) ==
    IF from < Len(in) /\ in[from + 1] \in lowercase
    THEN <<in[from + 1]>> \o lowerRun(in, from + 1)
    ELSE <<>>

\* C26: after a '|' the lowercase name is capitalize, replace or plural, and
\* plural is followed by '('; then the name becomes a transformer token.
\* Any other name, a known name with more letters, no name at all, or
\* plural without '(' ends the run with an error token.
C26_TransformerNames ==
    (phase = "lex" /\ state = "lexerTransformer" /\ peekR(L) = "|") =>
        LET name == lowerRun(input, pos + 1)
            after == pos + 1 + Len(name)
            known == \/ name \in {strCapitalize, strReplace}
                     \/ name = strPlural /\ after < Len(input) /\ input[after + 1] = "("
            n == lexerTransformer(L)
        IN  IF known
            THEN /\ n.tokens = Append(tokens, Token("transformer", name, pos + 1))
                 /\ n.state = IF name = strPlural THEN "lexerPluralArgs" ELSE "lexerTransformer"
            ELSE /\ n.state = "nil"
                 /\ lexFailed(n.tokens)
                 /\ Len(n.tokens) = Len(tokens) + 1

\* The name "replaced" after a '|' has ended the run with an error.
C26_Witness ==
    /\ state = "nil"
    /\ lexFailed(tokens)
    /\ tokens[Len(tokens)].Data = <<"unknown transformer">>
    /\ pos >= 9
    /\ Slice(input, pos - 9, pos) = <<"|">> \o strReplace \o <<"d">>

\* Every ':' of the template is followed by a character that is no
\* lowercase letter, or by the end of the template.
NoPlaceholderColon(in) ==
    \A i \in 1..Len(in) : in[i] = ":" => (i = Len(in) \/ in[i + 1] \notin lowercase)

\* The values of the operations of a Message that holds only Literals.
LiteralValues(m) == [i \in 1..Len(m.Ops) |-> m.Ops[i].Value]

\* C27: a ':' not followed by a lowercase letter is literal text.  For a
\* template whose every ':' is followed by another character or the end,
\* the lexer emits only literal tokens, Parse succeeds with Literal
\* operations only and their values in order spell the template.
C27_ColonKeptAsLiteral ==
    NoPlaceholderColon(input) =>
        /\ \A i \in 1..Len(tokens) : tokens[i].TokenType = "literal"
        /\ phase # "failed"
        /\ phase = "parsed" =>
              /\ \A i \in 1..Len(msg.Ops) : msg.Ops[i].op = "LiteralOp"
              /\ Flatten(LiteralValues(msg)) = input
              /\ Parse(input) = [err |-> FALSE, msg |-> msg]

\* A template with a ':' before an uppercase letter, before a blank and at
\* its end is parsed to more than one Literal.
C27_Witness ==
    /\ phase = "parsed"
    /\ NoPlaceholderColon(input)
    /\ Len(input) > 0
    /\ input[Len(input)] = ":"
    /\ \E i \in 1..(Len(input) - 1) : input[i] = ":" /\ input[i + 1] = "A"
    /\ Len(msg.Ops) >= 3

\* The tokens of a plural case body.
BodyTokens == {"literal", "pluralCount"}

\* C28: the shape of the tokens of a successful lex.  A range dash stands
\* between two numeric tokens; a body start follows a numeric or an other
\* token and is closed by a body end with only literal and count tokens in
\* between; a count token or a body end is inside such a pair.
C28_TokenStreamShape ==
    (state = "nil" /\ ~lexFailed(tokens)) =>
        LET tt(i) == tokens[i].TokenType
            n == Len(tokens)
        IN  \A i \in 1..n :
              /\ tt(i) = "pluralRange" =>
                    /\ 1 < i /\ i < n
                    /\ tt(i - 1) = "pluralNumeric"
                    /\ tt(i + 1) = "pluralNumeric"
              /\ tt(i) = "pluralTranslationStart" =>
                    /\ 1 < i
                    /\ tt(i - 1) \in {"pluralNumeric", "pluralOther"}
                    /\ \E j \in (i + 1)..n :
                          /\ tt(j) = "pluralTranslationEnd"
                          /\ \A k \in (i + 1)..(j - 1) : tt(k) \in BodyTokens
              /\ tt(i) \in {"pluralCount", "pluralTranslationEnd"} =>
                    \E j \in 1..(i - 1) :
                          /\ tt(j) = "pluralTranslationStart"
                          /\ \A k \in (j + 1)..(i - 1) : tt(k) \in BodyTokens

\* A lex that succeeded with a range case and an other case, both with a
\* count marker in the body.
C28_Witness ==
    /\ state = "nil"
    /\ ~lexFailed(tokens)
    /\ \E i, j \in 1..Len(tokens) :
          /\ tokens[i].TokenType = "pluralRange"
          /\ tokens[j].TokenType = "pluralOther"
          /\ i + 3 <= Len(tokens) /\ tokens[i + 3].TokenType = "literal"
          /\ j + 2 <= Len(tokens) /\ tokens[j + 2].TokenType = "pluralCount"

\* The plural transformers of a Message.
PluralsOf(m) ==
    { t \in UNION { Range(m.Ops[i].Transformers) :
                      i \in {i \in 1..Len(m.Ops) : m.Ops[i].op = "ReplacementOp"} } :
        t.t = "PluralTransformer" }

\* A body of LiteralOp and PluralCountOp operations only.
BodyOps(ops) == \A i \in 1..Len(ops) : ops[i].op \in {"LiteralOp", "PluralCountOp"}

\* C29: in a parsed Message the body of every plural case and of other
\* holds only Literal and PluralCount operations, and Cases holds only
\* Exact and Range cases: the other case is in Other alone.
C29_PluralBodiesAndCases ==
    phase = "parsed" =>
        \A t \in PluralsOf(msg) :
            /\ BodyOps(t.Other)
            /\ t.Other # <<>>
            /\ \A i \in 1..Len(t.Cases) :
                  /\ t.Cases[i].Type \in {"OpPluralCaseTypeExact", "OpPluralCaseTypeRange"}
                  /\ BodyOps(t.Cases[i].Ops)

\* A parsed plural with an Exact and a Range case and an other body with
\* a count marker.
C29_Witness ==
    /\ phase = "parsed"
    /\ \E t \in PluralsOf(msg) :
          /\ \E i, j \in 1..Len(t.Cases) :
                /\ t.Cases[i].Type = "OpPluralCaseTypeExact"
                /\ t.Cases[j].Type = "OpPluralCaseTypeRange"
                /\ t.Cases[j].Ops # <<>>
          /\ \E i \in 1..Len(t.Other) : t.Other[i] = PluralCountOp

\* The tokens that open a numeric case: a numeric token that is not the
\* upper number of a range.
CaseStarts ==
    { i \in 1..Len(tokens) :
        /\ tokens[i].TokenType = "pluralNumeric"
        /\ i > 1 => tokens[i - 1].TokenType # "pluralRange" }

IsRange(i) == i < Len(tokens) /\ tokens[i + 1].TokenType = "pluralRange"

\* parsePluralCase with the iterator before token i.
CaseAt(i) == parsePluralCase([items |-> tokens, index |-> i - 2])

\* The case is the one its text gives: Exact with the number, or Range
\* with the two numbers in their order, which matches no count when the
\* low number is the larger.
Structural(i) ==
    LET c == CaseAt(i).pcase
    IN  IF IsRange(i)
        THEN /\ c.Type = "OpPluralCaseTypeRange"
             /\ c.A = digitsVal(tokens[i].Data)
             /\ c.B = digitsVal(tokens[i + 2].Data)
             /\ c.A > c.B => \A count \in 0..(c.A + 1) : ~Match(c, count)
        ELSE /\ c.Type = "OpPluralCaseTypeExact"
             /\ c.A = digitsVal(tokens[i].Data)

\* The numbers of the case are in the range of int.
FitsInt(i) ==
    /\ inRange(tokens[i].Data, maxInt)
    /\ IsRange(i) => inRange(tokens[i + 2].Data, maxInt)

\* C30 as stated: every case the lexer accepts becomes the Exact or Range
\* case of its numbers.
C30_EveryCaseStructural ==
    (state = "nil" /\ ~lexFailed(tokens)) =>
        \A i \in CaseStarts : CaseAt(i).kind = "case" /\ Structural(i)

\* C30: every case the lexer accepts whose numbers are in the range of int
\* becomes the Exact case of its number or the Range case of its two
\* numbers, whatever their order, and is in the parsed Message; a number
\* out of that range makes the parse fail.
C30_CasesStructuralWithinInt ==
    (state = "nil" /\ ~lexFailed(tokens)) =>
        \A i \in CaseStarts :
            IF FitsInt(i)
            THEN /\ CaseAt(i).kind = "case"
                 /\ Structural(i)
                 /\ phase = "parsed" =>
                       \E t \in PluralsOf(msg) : CaseAt(i).pcase \in Range(t.Cases)
            ELSE /\ CaseAt(i).kind = "err"
                 /\ phase \in {"lex", "failed"}

\* The case "=2-1 {b}" is in the parsed Message as the Range from 2 to 1.
C30_Witness ==
    /\ phase = "parsed"
    /\ \E i \in CaseStarts : IsRange(i) /\ tokens[i].Data = <<"2">>
    /\ \E t \in PluralsOf(msg) : \E c \in Range(t.Cases) :
          c.Type = "OpPluralCaseTypeRange" /\ c.A = 2 /\ c.B = 1

\* C31: Peek, HasNext and Current leave the position where it was; a Next
\* call succeeds exactly when the HasNext calls made since the position
\* last changed said so, and returns the token the Peek calls since then
\* returned.
C31_IteratorLookahead ==
    /\ call.op \in {"Peek", "HasNext", "Current"} => index = call.before
    /\ call.op = "Next" =>
          /\ call.has.set => (call.ok <=> call.has.ok)
          /\ call.peek.set =>
                /\ call.ok <=> call.peek.ok
                /\ call.ok => call.tok = call.peek.tok
    /\ call.op = "HasNext" => (call.ok <=> NextOk(IT))
    /\ call.op = "Peek" =>
          /\ call.ok <=> NextOk(IT)
          /\ call.ok => call.tok = NextTok(IT)

\* A Next in the middle of the items that followed a Peek and a HasNext.
C31_Witness ==
    /\ call.op = "Next"
    /\ call.ok
    /\ call.before >= 0
    /\ call.peek.set
    /\ call.has.set
    /\ call.reset

\* C32: the position stays between -1 and len(items) - 1.  Next at the end
\* returns not-found and stays; Current before the first Next returns
\* not-found; Reset gives the iterator newIterator gave, and the Next calls
\* since the iterator was made or reset have returned the items from the
\* first one in order.
C32_IteratorBounds ==
    /\ index \in -1..(Len(tokens) - 1)
    /\ (call.op = "Next" /\ call.before = Len(tokens) - 1) =>
          (~call.ok /\ call.tok = zeroValue /\ index = call.before)
    /\ (call.op = "Next" /\ call.before < Len(tokens) - 1) =>
          (call.ok /\ index = call.before + 1 /\ call.tok = tokens[index + 1])
    /\ (call.op = "Current" /\ call.before = -1) => (~call.ok /\ call.tok = zeroValue)
    /\ call.op = "Reset" => IT = newIterator(tokens)
    /\ call.seen = SubSeq(tokens, 1, index + 1)

\* After a Reset, Next has returned every item again and has then failed
\* at the end.
C32_Witness ==
    /\ call.op = "Next"
    /\ ~call.ok
    /\ call.reset
    /\ Len(tokens) >= 2
    /\ call.seen = tokens

\* How far a state function is from one that reads a character whenever
\* it hands over: lexerTransformer may hand over to lexLiteral and
\* lexLiteral to lexerPlaceholder, lexerPluralArgs to
\* lexerPluralNumericArg, without a read.
rank(st) ==
    CASE st = "lexerTransformer" -> 3
      [] st \in {"lexLiteral", "lexerPluralArgs"} -> 2
      [] OTHER -> 1

\* C33 as stated: a state function that does not end the run has consumed
\* at least one character when it hands over.
C33_EveryStateFunctionConsumes ==
    [][(phase = "lex" /\ state # "nil" /\ state' # "nil") => pos' > pos]_vars

\* C33: lexing terminates on every input.  A state function ends the run,
\* consumes at least one character, or hands over without a read to a
\* state function that is nearer to reading one, so the run reaches the nil
\* state.
C33_LexingTerminates ==
    /\ <>(state = "nil")
    /\ [][(phase = "lex" /\ state # "nil") =>
            \/ state' = "nil"
            \/ pos' > pos
            \/ pos' = pos /\ rank(state') < rank(state)]_vars
    /\ [](pos <= Len(input))
    /\ []((phase = "lex" /\ state # "nil") => stateFn(L) # L)

\* A run has ended without error on a template in which ")" is followed by
\* a placeholder: lexerTransformer and lexLiteral handed over there
\* without a read.
C33_Witness ==
    /\ state = "nil"
    /\ ~lexFailed(tokens)
    /\ pos = Len(input)
    /\ Len(input) >= 3
    /\ SubSeq(input, Len(input) - 2, Len(input)) = <<")", ":", "b">>

\* The offset after token k.
EndOf(k) == tokens[k].At + Len(tokens[k].Data)

CharAt(offset) == IF offset < Len(input) THEN input[offset + 1] ELSE eof

\* The tokens with a '|' right after them: a placeholder key, a capitalize
\* or replace name, or the end of the last body before the ')' of a
\* plural; BarOffset is the offset of that '|'.
KeyOrName(k) ==
    \/ tokens[k].TokenType = "replacement"
    \/ tokens[k].TokenType = "transformer" /\ tokens[k].Data \in {strCapitalize, strReplace}

BarOffset(k) == IF KeyOrName(k) THEN EndOf(k) ELSE EndOf(k) + 1

BarFollows(k) ==
    \/ KeyOrName(k) /\ CharAt(EndOf(k)) = "|"
    \/ /\ tokens[k].TokenType = "pluralTranslationEnd"
       /\ CharAt(EndOf(k)) = ")"
       /\ CharAt(EndOf(k) + 1) = "|"

\* C34: a '|' right after a placeholder key, a capitalize or replace name
\* or the ')' of a plural is no literal text.  The next token is the
\* transformer named after the '|' or the error token that ends the run,
\* and the template does not parse unless a lowercase letter follows.
C34_BarIsNeverLiteral ==
    state = "nil" =>
        \A k \in 1..Len(tokens) : BarFollows(k) =>
            /\ k < Len(tokens)
            /\ \/ tokens[k + 1].TokenType = "errTok"
               \/ /\ tokens[k + 1].TokenType = "transformer"
                  /\ tokens[k + 1].At = BarOffset(k) + 1
            /\ CharAt(BarOffset(k) + 1) \notin lowercase =>
                  (lexFailed(tokens) /\ Parse(input).err /\ phase \in {"lex", "failed"})

\* Runs on templates with "| " after a key have ended with an error, and
\* did so after the ')' of a plural too.
C34_Witness ==
    /\ phase = "failed"
    /\ \E k \in 1..Len(tokens) :
          /\ BarFollows(k)
          /\ tokens[k].TokenType = "pluralTranslationEnd"
          /\ CharAt(BarOffset(k) + 1) = " "
          /\ tokens[k + 1].TokenType = "errTok"

\* The languages a ScopedLanguage call on the container and context of the
\* state can return, one for every order of the range over c.messages.
Resolutions(c) ==
    {ScopedLanguage(c_messages, defaultLanguage, c, order) :
        order \in Orders(DOMAIN c_messages)}

\* C35: ScopedLanguage and Message resolve the language of a call to the
\* one every other call on the same container and context resolves it to,
\* whatever the order of the range over c.messages.
C35_ResolutionDeterministic ==
    call.op \in {"ScopedLanguage", "Message"} => Resolutions(ctx) = {call.lang}

\* c.messages[l], the nil map for a language without file.
scopeOf(l) == IF l \in DOMAIN c_messages THEN c_messages[l] ELSE <<>>

\* The request carries a language no loaded language has, as language or as
\* base language.
Unmatched ==
    /\ ~Empty(fromCtx(ctx))
    /\ \A s \in DOMAIN c_messages : ~MatchLanguage(s, fromCtx(ctx)).match

\* C36: with a default language, a call whose context has a language that
\* matches no loaded language gets the scope a call without language in
\* the context can get.
C36_DefaultFallbackUniform ==
    (call.op \in {"ScopedLanguage", "Message"} /\ ~Empty(defaultLanguage) /\ Unmatched) =>
        \E l \in Resolutions(<<>>) : scopeOf(call.lang) = scopeOf(l)

\* from.messages as the last Merge call left it: c_messages when it was
\* called with one container as `from` and as `to`.
fromAfter == IF call.same THEN c_messages ELSE from_messages

TextTokens == {k \in 1..Len(tokens) : tokens[k].TokenType # "errTok"}

\* C38: between the state functions 0 <= start <= pos <= len(input) and the
\* last read lies inside the input, before pos or, when it was undone,
\* behind it; every token collect emitted is a non-empty slice
\* input[At:At+len(Data)] that ends at or before start, the tokens follow
\* each other in the input without overlap, and an error is reported at an
\* offset inside the input, behind every token.
C38_CursorInvariant ==
    /\ 0 <= start /\ start <= pos /\ pos <= Len(input)
    /\ width \in {0, 1} /\ (width <= pos \/ pos + width <= Len(input))
    /\ \A k \in TextTokens :
          /\ tokens[k].Data # <<>>
          /\ 0 <= tokens[k].At
          /\ EndOf(k) <= start
          /\ tokens[k].Data = Slice(input, tokens[k].At, EndOf(k))
    /\ \A j, k \in TextTokens : j < k => EndOf(j) <= tokens[k].At
    /\ \A k \in 1..Len(tokens) : tokens[k].TokenType = "errTok" =>
          /\ k = Len(tokens)
          /\ tokens[k].At = pos /\ start = pos
          /\ \A j \in TextTokens : EndOf(j) <= tokens[k].At

\* A run has ended at the end of a template with a placeholder and a '#'
\* in a plural case, both collected after a backup.
C38_Witness ==
    /\ state = "nil"
    /\ ~lexFailed(tokens)
    /\ pos = Len(input)
    /\ \E j, k \in TextTokens :
          /\ tokens[j].TokenType = "replacement"
          /\ tokens[k].TokenType = "pluralCount"
          /\ tokens[k].At > 0
          /\ tokens[k - 1].TokenType = "literal"

====
